---- MODULE Spec2Model ----
(***************************************************************************)
(* The Hungry Games day simulation of src/js/hungryGames.js, for one       *)
(* server (one entry of `games`).  A command handler or timer callback     *)
(* runs to completion before the next one starts (JavaScript run to        *)
(* completion); nextDay is split into steps at its loop heads, the         *)
(* position being kept in pc, and no other handler runs while pc is not    *)
(* "idle".  Math.random() draws are the \E-bound inputs of the actions.    *)
(* An exception thrown inside a handler ends the handler and keeps         *)
(* the assignments made before the throw.                                  *)
(***************************************************************************)
EXTENDS Integers, Sequences, FiniteSets, TLC

VARIABLES
  options,                 \* games[id].options
  otherOptions,            \* games[other].options, of a second server
  defaultBloodbathEvents,  \* templates of the first day
  defaultPlayerEvents,     \* templates of an ordinary day
  defaultArenaEvents,      \* arena events, each with its outcomes
  members,                 \* msg.guild.members, the ids in guild order
  excludedUsers,           \* games[id].excludedUsers
  includedUsers,           \* games[id].currentGame.includedUsers
  teams,                   \* games[id].currentGame.teams
  numAlive,                \* games[id].currentGame.numAlive
  inProgress,              \* games[id].currentGame.inProgress
  ended,                   \* games[id].currentGame.ended
  day,                     \* games[id].currentGame.day
  hasCurrentGame,          \* games[id].currentGame is defined
  hasGame,                 \* games[id] is defined
  ownOptions,              \* games[id].options is an object parsed from the
                           \* store, not the object defaultOptions
  intervals,               \* intervals[id] is set (the reveal timer runs)
  timers,                  \* the timers of setInterval that call printEvent
  autoPlay,                \* games[id].autoPlay
  dayTimers,               \* the timers of setTimeout that call nextDay
  pc,                      \* position inside nextDay, "idle" outside of it
  userPool,                \* nextDay: ids of the players not yet in an event
  userEventPool,           \* nextDay: the templates of this day
  loop,                    \* nextDay: attempts since the last accepted event
  eventTry,                \* nextDay: the template drawn
  numVictim,               \* nextDay: resolved number of victims
  numAttacker,             \* nextDay: resolved number of attackers
  lastOp                   \* the handler that ran last, and how it ended

gameVars == <<includedUsers, teams, numAlive, inProgress, ended, day>>
autoVars == <<autoPlay, dayTimers>>
localVars == <<pc, userPool, userEventPool, loop, eventTry, numVictim, numAttacker>>
configVars == <<options, otherOptions, hasCurrentGame, hasGame, ownOptions,
                defaultBloodbathEvents,
                defaultPlayerEvents,
                defaultArenaEvents, members, excludedUsers>>
vars == <<options, otherOptions, defaultBloodbathEvents, defaultPlayerEvents,
          defaultArenaEvents, members, excludedUsers, includedUsers, teams,
          numAlive, inProgress, ended, day, hasCurrentGame, hasGame, ownOptions,
          intervals,
          timers, autoPlay, dayTimers,
          pc, userPool, userEventPool, loop, eventTry, numVictim, numAttacker,
          lastOp>>

-----------------------------------------------------------------------------
(* Bounds of the model. *)

\* Largest number of guild members of a game.
MaxPlayers == 3

\* Days simulated in one game (day.num is a counter without a bound).
MaxDays == 2

\* Timers of setTimeout that wait to call nextDay at one time.
MaxDayTimers == 2

\* The members 1 .. MaxMentioned are the users a host mentions in a command.
MaxMentioned == 1

\* Entries of includedUsers while no game runs (a user already included can be
\* included again and again).
MaxIncluded == 4

\* Days simulated in one game of the specification of the team ranks.
RankDays == 3

\* The event log of one day takes no further event once it holds this many
\* (day.events grows without a bound when a template with no participants is
\* accepted again and again).
MaxEvents == 7

-----------------------------------------------------------------------------
(* Sequence helpers. *)

Range(s) == {s[i] : i \in 1..Len(s)}

Min(a, b) == IF a < b THEN a ELSE b

\* Array.prototype.findIndex, 1-based; 0 stands for JavaScript's -1.
FindIndex(s, Test(_)) ==
  IF \E i \in 1..Len(s) : Test(s[i])
  THEN CHOOSE i \in 1..Len(s) : Test(s[i]) /\ \A j \in 1..(i - 1) : ~Test(s[j])
  ELSE 0

\* Mutant: the element stays in the array.
RemoveAtNothing(s, i) == s

\* Array.prototype.splice(i, 1) for an index inside the array.
RemoveAt(s, i) == SubSeq(s, 1, i - 1) \o SubSeq(s, i + 1, Len(s))

\* Array.prototype.sort by an integer key per element (keys[i] is the key of
\* s[i]); elements with equal keys keep their order.  SortedIndices is the
\* order of the indices, built as an insertion sort.
RECURSIVE SortedIndices(_, _)
SortedIndices(keys, n) ==
  IF n = 0 THEN <<>>
  ELSE LET rest == SortedIndices(keys, n - 1)
           pos == FindIndex(rest, LAMBDA j : keys[n] < keys[j])
       IN IF pos = 0 THEN Append(rest, n)
          ELSE SubSeq(rest, 1, pos - 1) \o <<n>> \o SubSeq(rest, pos, Len(rest))

SortByKey(s, keys) ==
  LET idx == SortedIndices(keys, Len(s)) IN [i \in 1..Len(s) |-> s[idx[i]]]

-----------------------------------------------------------------------------
(* Entity model. *)

\* function Player(id, username, avatarURL)
Player(id) ==
  [id |-> id, living |-> TRUE, bleeding |-> FALSE, rank |-> 1,
   state |-> "normal", kills |-> 0]

\* function Team(id, name, players)
Team(players) == [players |-> players, rank |-> 1, numAlive |-> Len(players)]

\* getAllPlayers for a guild without bots: the members not excluded, or every
\* member when that leaves nobody.
getAllPlayers(m, excluded) ==
  LET finalMembers == SelectSeq(m, LAMBDA x : x \notin Range(excluded))
      chosen == IF Len(finalMembers) = 0 THEN m ELSE finalMembers
  IN [i \in 1..Len(chosen) |-> Player(chosen[i])]

\* teams.findIndex(team => team.players.findIndex(p => p == id) > -1), 1-based
TeamIndexOf(ts, id) == FindIndex(ts, LAMBDA t : id \in Range(t.players))

UserIndexOf(users, id) == FindIndex(users, LAMBDA u : u.id = id)

Living(users) == {i \in 1..Len(users) : users[i].living}

-----------------------------------------------------------------------------
(* formTeams *)

\* notIncluded.splice(notIncluded.findIndex(obj => obj.id == p), 1): an index
\* of -1 removes the last element.
SpliceNotIncluded(notIncluded, p) ==
  LET i == FindIndex(notIncluded, LAMBDA x : x = p)
  IN IF notIncluded = <<>> THEN <<>>
     ELSE IF i = 0 THEN SubSeq(notIncluded, 1, Len(notIncluded) - 1)
     ELSE RemoveAt(notIncluded, i)

\* The inner loop over one team's players: players no longer included leave
\* the team, the others are struck from notIncluded.
RECURSIVE PruneTeam(_, _, _)
PruneTeam(players, included, notIncluded) ==
  IF players = <<>> THEN [players |-> <<>>, notIncluded |-> notIncluded]
  ELSE LET p == Head(players) IN
       IF p \notin included
       THEN PruneTeam(Tail(players), included, notIncluded)
       ELSE LET r == PruneTeam(Tail(players), included,
                               SpliceNotIncluded(notIncluded, p))
            IN [r EXCEPT !.players = <<p>> \o @]

RECURSIVE PruneTeams(_, _, _)
PruneTeams(ts, included, notIncluded) ==
  IF ts = <<>> THEN [teams |-> <<>>, notIncluded |-> notIncluded]
  ELSE LET r == PruneTeam(Head(ts).players, included, notIncluded)
           rest == PruneTeams(Tail(ts), included, r.notIncluded)
       IN [rest EXCEPT !.teams = <<[Head(ts) EXCEPT !.players = r.players]>> \o @]

\* Players on no team join the first team with room, or a new team.
RECURSIVE AddToTeams(_, _, _)
AddToTeams(ts, notIncluded, teamSize) ==
  IF notIncluded = <<>> THEN ts
  ELSE LET p == Head(notIncluded)
           j == FindIndex(ts, LAMBDA t : Len(t.players) < teamSize)
       IN IF j > 0
          THEN AddToTeams([ts EXCEPT ![j].players = Append(@, p)],
                          Tail(notIncluded), teamSize)
          ELSE AddToTeams(Append(ts, Team(<<p>>)), Tail(notIncluded), teamSize)

\* Math.ceil(n / teamSize)
CeilDiv(n, d) == (n + d - 1) \div d

\* formTeams(id) for a team size that is not negative; the result is
\* game.currentGame.teams.
formTeams(teamSize, users, ts) ==
  LET ids == [i \in 1..Len(users) |-> users[i].id]
      formed ==
        IF Len(ts) > 0
        THEN LET pruned == PruneTeams(ts, Range(ids), ids)
             IN AddToTeams(pruned.teams, pruned.notIncluded, teamSize)
        ELSE [i \in 1..CeilDiv(Len(users), teamSize) |->
                Team(SubSeq(ids, (i - 1) * teamSize + 1,
                            Min(i * teamSize, Len(ids))))]
  IN IF teamSize = 0 THEN <<>>
     ELSE [i \in 1..Len(formed) |->
             [formed[i] EXCEPT !.numAlive = Len(formed[i].players), !.rank = 1]]

-----------------------------------------------------------------------------
(* Event templates (the content of hgEvents.json) and game set-ups. *)

\* An array slot that holds no event (undefined or null).
NoEvent == [message |-> "none"]

Side(count, outcome, killer) ==
  [count |-> count, outcome |-> outcome, killer |-> killer]

Template(message, victim, attacker) ==
  [message |-> message, victim |-> victim, attacker |-> attacker]

\* {attacker} kills {victim}.
Kill == Template("kill", Side(1, "dies", FALSE), Side(1, "nothing", TRUE))
\* {victim} dies alone.
Dies == Template("dies", Side(1, "dies", FALSE), Side(0, "nothing", FALSE))
\* {victim} hurts themselves.
Wound == Template("wound", Side(1, "wounded", FALSE), Side(0, "nothing", FALSE))
\* {victim} finds medicine.
Heal == Template("heal", Side(1, "thrives", FALSE), Side(0, "nothing", FALSE))
\* {victim} hides.
Hide == Template("hide", Side(1, "nothing", FALSE), Side(0, "nothing", FALSE))
\* {attacker} kill[As|] at least one {victim}; the attackers die too.
Massacre == Template("massacre", Side(-1, "dies", FALSE), Side(1, "dies", TRUE))
\* Nobody takes part.
Quiet == Template("quiet", Side(0, "nothing", FALSE), Side(0, "nothing", FALSE))

ArenaEvent(message, outcomes) == [message |-> message, outcomes |-> outcomes]

EventFile(bloodbath, player, arena) ==
  [bloodbath |-> bloodbath, player |-> player, arena |-> arena]

\* A JavaScript number that the game does no arithmetic on: NaN, or a number.
NaN == [nan |-> TRUE, n |-> 0]

Num(n) == [nan |-> FALSE, n |-> n]

\* The options the simulation reads, and delayEvents (its value only sets the
\* pace of the reveal); teamSize is kept as an integer.
Options(teamSize, teammatesCollaborate, allowNoVictors, resurrection, arenaEvents) ==
  [teamSize |-> teamSize, teammatesCollaborate |-> teammatesCollaborate,
   allowNoVictors |-> allowNoVictors, resurrection |-> resurrection,
   arenaEvents |-> arenaEvents, delayEvents |-> Num(3500)]

Setup(n, opts, file) == [n |-> n, options |-> opts, file |-> file]

\* hgEvents.json could not be read: the three default arrays stay empty.
NoFile == EventFile(<<>>, <<>>, <<>>)

WoundFile == EventFile(<<Wound, Dies>>, <<Wound, Dies>>, <<>>)

KillFile == EventFile(<<Kill, Hide>>, <<Dies>>, <<>>)

ArenaFile == EventFile(<<Kill, Hide>>, <<Heal>>, <<ArenaEvent("flood", <<Dies, Hide>>)>>)

MassacreFile == EventFile(<<Massacre, Hide>>, <<Massacre, Wound>>, <<>>)

QuietFile == EventFile(<<Quiet, Kill>>, <<Quiet>>, <<>>)

\* {attacker} dies alone.
Betray == Template("betray", Side(0, "nothing", FALSE), Side(1, "dies", FALSE))
\* {attacker} gathers at least six {victim}.
Crowd == Template("crowd", Side(-6, "nothing", FALSE), Side(1, "nothing", FALSE))

\* Five {victim} feast.
Feast == Template("feast", Side(5, "nothing", FALSE), Side(0, "nothing", FALSE))
\* Four {victim} die.
Plague == Template("plague", Side(4, "dies", FALSE), Side(0, "nothing", FALSE))

RankFile == EventFile(<<Betray, Feast, Crowd>>, <<Plague, Hide>>, <<>>)

\* Seven players in teams of two, with resurrection.
RankSetups == {Setup(7, Options(2, TRUE, TRUE, TRUE, FALSE), RankFile)}

\* The set-ups the general specification starts from.
Setups ==
  {Setup(n, Options(0, TRUE, TRUE, TRUE, FALSE), WoundFile) : n \in 1..MaxPlayers}
  \cup {Setup(MaxPlayers, Options(0, TRUE, b, FALSE, FALSE), MassacreFile) : b \in BOOLEAN}
  \cup {Setup(MaxPlayers, Options(2, TRUE, FALSE, TRUE, FALSE), WoundFile),
        Setup(MaxPlayers, Options(2, FALSE, TRUE, FALSE, FALSE), KillFile),
        Setup(MaxPlayers, Options(2, TRUE, TRUE, FALSE, TRUE), ArenaFile),
        Setup(MaxPlayers, Options(0, TRUE, TRUE, FALSE, TRUE), NoFile),
        Setup(2, Options(0, TRUE, TRUE, FALSE, FALSE), QuietFile)}

-----------------------------------------------------------------------------
(* The state after createGame on a server without data, the options set. *)

InitWith(setups) ==
  \E s \in setups :
    /\ options = s.options
    /\ otherOptions = s.options
    /\ defaultBloodbathEvents = s.file.bloodbath
    /\ defaultPlayerEvents = s.file.player
    /\ defaultArenaEvents = s.file.arena
    /\ members = [i \in 1..s.n |-> i]
    /\ excludedUsers = <<>>
    /\ includedUsers = getAllPlayers([i \in 1..s.n |-> i], <<>>)
    /\ teams = <<>>
    /\ numAlive = s.n
    /\ inProgress = FALSE
    /\ ended = FALSE
    /\ day = [num |-> 0, state |-> 0, events |-> <<>>]
    /\ hasCurrentGame = TRUE
    /\ hasGame = TRUE
    /\ ownOptions = FALSE
    /\ intervals = FALSE
    /\ timers = 0
    /\ autoPlay = FALSE
    /\ dayTimers = 0
    /\ pc = "idle"
    /\ userPool = <<>>
    /\ userEventPool = <<>>
    /\ loop = 0
    /\ eventTry = NoEvent
    /\ numVictim = 0
    /\ numAttacker = 0
    /\ lastOp = "createGame"

Init == InitWith(Setups)

\* A write to games[id].options: createGame gives every game the one object
\* defaultOptions (options: defaultOptions), so the options of the second
\* server, created in the same way, are the object written.
SetOptions(new) ==
  /\ options' = new
  /\ otherOptions' = (IF ownOptions THEN otherOptions ELSE new)

\* createGame in a process whose defaultOptions hold the options of the setup
\* already: formTeams, at the end of createGame, forms the teams.
InitCreated(setups) ==
  \E s \in setups :
    /\ options = s.options
    /\ otherOptions = s.options
    /\ defaultBloodbathEvents = s.file.bloodbath
    /\ defaultPlayerEvents = s.file.player
    /\ defaultArenaEvents = s.file.arena
    /\ members = [i \in 1..s.n |-> i]
    /\ excludedUsers = <<>>
    /\ includedUsers = getAllPlayers([i \in 1..s.n |-> i], <<>>)
    /\ teams = formTeams(s.options.teamSize,
                         getAllPlayers([i \in 1..s.n |-> i], <<>>), <<>>)
    /\ numAlive = s.n
    /\ inProgress = FALSE
    /\ ended = FALSE
    /\ day = [num |-> 0, state |-> 0, events |-> <<>>]
    /\ hasCurrentGame = TRUE
    /\ hasGame = TRUE
    /\ ownOptions = FALSE
    /\ intervals = FALSE
    /\ timers = 0
    /\ autoPlay = FALSE
    /\ dayTimers = 0
    /\ pc = "idle"
    /\ userPool = <<>>
    /\ userEventPool = <<>>
    /\ loop = 0
    /\ eventTry = NoEvent
    /\ numVictim = 0
    /\ numAttacker = 0
    /\ lastOp = "createGame"

\* client.clearInterval(intervals[id]): the timer that intervals[id] holds,
\* when it holds one, stops.
ClearInterval == IF intervals THEN timers - 1 ELSE timers

\* A handler that reads a property of games[id].currentGame while there is no
\* current game: the TypeError ends it.
NoCurrentGame(op) ==
  /\ pc = "idle"
  /\ ~hasCurrentGame
  /\ lastOp' = op
  /\ UNCHANGED <<configVars, gameVars, intervals, timers, autoVars, localVars>>

\* A handler that reads a property of games[id] while the server has no data:
\* the TypeError ends it.
NoGame(op) ==
  /\ pc = "idle"
  /\ ~hasGame
  /\ lastOp' = op
  /\ UNCHANGED <<configVars, gameVars, intervals, timers, autoVars, localVars>>

\* The locals of nextDay outside of nextDay.
NoLocals ==
  /\ pc' = "idle"
  /\ userPool' = <<>>
  /\ userEventPool' = <<>>
  /\ loop' = 0
  /\ eventTry' = NoEvent
  /\ numVictim' = 0
  /\ numAttacker' = 0

-----------------------------------------------------------------------------
(* createGame as the command "create".  A server without data gets new data *)
(* whose options are the object defaultOptions; the model keeps the content  *)
(* of defaultOptions in options while the server has no data.                *)

createGame ==
  /\ pc = "idle"
  /\ IF inProgress
     THEN /\ lastOp' = "createGame:refused"
          /\ UNCHANGED <<gameVars, options, otherOptions, excludedUsers>>
     ELSE LET excluded == IF hasGame THEN excludedUsers ELSE <<>>
              users == getAllPlayers(members, excluded)
              size == IF options.teamSize < 0 THEN 0 ELSE options.teamSize
          IN /\ ended' = FALSE
             /\ day' = [num |-> 0, state |-> 0, events |-> <<>>]
             /\ excludedUsers' = excluded
             /\ includedUsers' = users
             /\ numAlive' = Len(users)
             /\ SetOptions([options EXCEPT !.teamSize = size])
             /\ teams' = formTeams(size, users, IF hasGame THEN teams ELSE <<>>)
             /\ lastOp' = "createGame"
             /\ UNCHANGED inProgress
  /\ hasCurrentGame' = TRUE
  /\ hasGame' = TRUE
  /\ autoPlay' = (hasGame /\ autoPlay)
  /\ ownOptions' = (hasGame /\ ownOptions)
  /\ UNCHANGED <<defaultBloodbathEvents, defaultPlayerEvents, defaultArenaEvents,
                 members, intervals, timers, dayTimers, localVars>>

-----------------------------------------------------------------------------
(* startGame, with the createGame(msg, id, true) it calls. *)

startGame ==
  /\ pc \in {"idle", "startGame"}
  /\ IF inProgress
     THEN /\ lastOp' = "startGame:refused"
          /\ UNCHANGED <<gameVars, options, otherOptions, excludedUsers>>
     ELSE LET excluded == IF hasGame THEN excludedUsers ELSE <<>>
              users == getAllPlayers(members, excluded)
              size == IF options.teamSize < 0 THEN 0 ELSE options.teamSize
          IN /\ ended' = FALSE
             /\ day' = [num |-> 0, state |-> 0, events |-> <<>>]
             /\ excludedUsers' = excluded
             /\ includedUsers' = users
             /\ numAlive' = Len(users)
             /\ SetOptions([options EXCEPT !.teamSize = size])
             /\ teams' = formTeams(size, users, IF hasGame THEN teams ELSE <<>>)
             /\ inProgress' = TRUE
             /\ lastOp' = "startGame"
  /\ hasCurrentGame' = TRUE
  /\ hasGame' = TRUE
  /\ autoPlay' = (hasGame /\ autoPlay)
  /\ ownOptions' = (hasGame /\ ownOptions)
  \* if (games[id].autoPlay) nextDay(msg, id);
  /\ pc' = (IF ~inProgress /\ hasGame /\ autoPlay THEN "nextDay" ELSE "idle")
  /\ UNCHANGED <<defaultBloodbathEvents, defaultPlayerEvents, defaultArenaEvents,
                 members, intervals, timers, dayTimers, userPool, userEventPool,
                 loop, eventTry, numVictim, numAttacker>>

-----------------------------------------------------------------------------
(* nextDay: the checks at its entry, the resurrection, the day's templates. *)

\* Mutant: the record keeps the victims only.
makeSingleEventVictimsOnly(message, effectedUsers, numV, numA) ==
  [message |-> message,
   victims |-> SubSeq(effectedUsers, 1, Min(numV, Len(effectedUsers))),
   attackers |-> <<>>]

\* makeSingleEvent: the first numV of effectedUsers are the victims, the next
\* numA the attackers.
makeSingleEvent(message, effectedUsers, numV, numA) ==
  LET v == Min(numV, Len(effectedUsers))
      a == Min(numA, Len(effectedUsers) - v)
  IN [message |-> message,
      victims |-> SubSeq(effectedUsers, 1, v),
      attackers |-> SubSeq(effectedUsers, v + 1, v + a)]

\* Mutant: only a day that is being simulated is refused.
DayAlreadyStartedOnlySimulating == day.state = 1

\* if (games[id].currentGame.day.state != 0) ... return
DayAlreadyStarted == day.state # 0

\* Mutant: the resurrection leaves every other rank as it was.
ResurrectRankKept(obj, resurrected) == obj.rank

\* The players a resurrection leaves dead move down one rank when they ranked
\* better than the resurrected player did.
ResurrectRank(obj, resurrected) ==
  IF ~obj.living /\ obj.rank < resurrected.rank THEN obj.rank + 1 ELSE obj.rank

\* An eliminated team moves down one rank when it ranked better than the team
\* of the resurrected player.
ResurrectTeamRank(obj, team) ==
  IF obj.numAlive = 0 /\ obj.rank < team.rank THEN obj.rank + 1 ELSE obj.rank

\* The resurrection of includedUsers[r].  thrown: no team holds the player, and
\* team.numAlive++ throws a TypeError after the players were updated.
Resurrect(users, ts, alive, r) ==
  LET resurrected == [users[r] EXCEPT !.living = TRUE, !.state = "zombie"]
      users1 == [i \in 1..Len(users) |->
                   IF i = r THEN [resurrected EXCEPT !.rank = 1]
                   ELSE [users[i] EXCEPT !.rank = ResurrectRank(users[i], resurrected)]]
      t == TeamIndexOf(ts, resurrected.id)
      ts1 == [ts EXCEPT ![t].numAlive = @ + 1]
      ts2 == [i \in 1..Len(ts) |->
                [ts1[i] EXCEPT !.rank = ResurrectTeamRank(ts1[i], ts1[t])]]
  IN [users |-> users1,
      numAlive |-> alive + 1,
      event |-> makeSingleEvent("resurrected", <<resurrected.id>>, 1, 0),
      teams |-> IF t = 0 THEN ts ELSE ts2,
      thrown |-> t = 0]

\* The ids of the living players, in the order of includedUsers.
LivingPool(users) ==
  LET alive == SelectSeq(users, LAMBDA obj : obj.living)
  IN [i \in 1..Len(alive) |-> alive[i].id]

\* Mutant: the day keeps its number.
NextDayNumKept(d) == d.num

\* games[id].currentGame.day.num++
NextDayNum(d) == d.num + 1

\* The first part of nextDay, up to the head of the event loop.
\*   resurrect: 0 for no resurrection, else the index of the player revived
\*   arena: 0 for no arena event, else the number drawn for the arena event
StartDay(resurrect, arena) ==
  LET res == IF resurrect = 0
             THEN [users |-> includedUsers, numAlive |-> numAlive,
                   teams |-> teams, thrown |-> FALSE]
             ELSE Resurrect(includedUsers, teams, numAlive, resurrect)
      events1 == IF resurrect = 0 THEN <<>> ELSE <<res.event>>
      num == NextDayNum(day)
      noArena == arena > 0 /\ defaultArenaEvents = <<>>
      events2 == IF arena > 0 /\ ~noArena
                 THEN Append(events1,
                             makeSingleEvent(defaultArenaEvents[arena].message, <<>>, 0, 0))
                 ELSE events1
  IN /\ includedUsers' = res.users
     /\ numAlive' = res.numAlive
     /\ teams' = res.teams
     /\ UNCHANGED <<inProgress, ended, intervals, timers, autoVars>>
     /\ IF res.thrown \/ noArena
        THEN \* TypeError: team is undefined, or arenaEvent is undefined
             /\ day' = [num |-> num, state |-> 1, events |-> events1]
             /\ NoLocals
             /\ lastOp' = "nextDay:thrown"
        ELSE /\ day' = [num |-> num, state |-> 1, events |-> events2]
             /\ pc' = "loop"
             /\ userPool' = LivingPool(res.users)
             /\ userEventPool' =
                  IF num = 1 THEN defaultBloodbathEvents
                  ELSE IF arena > 0 THEN defaultArenaEvents[arena].outcomes
                  ELSE defaultPlayerEvents
             /\ loop' = 0
             /\ UNCHANGED <<eventTry, numVictim, numAttacker>>
             /\ lastOp' = "nextDay"

\* The values Math.random() can make the resurrection take.
ResurrectDraws ==
  {0} \cup (IF options.resurrection
            THEN {r \in 1..Len(includedUsers) : ~includedUsers[r].living}
            ELSE {})

\* Mutant: the arena event is drawn on the first day too.
ArenaDrawsFirstDay ==
  {0} \cup (IF options.arenaEvents
            THEN IF defaultArenaEvents = <<>> THEN {1}
                 ELSE 1..Len(defaultArenaEvents)
            ELSE {})

\* The values Math.random() can make the arena event take; day.num is the
\* number before its increment.
ArenaDraws ==
  {0} \cup (IF day.num + 1 # 1 /\ options.arenaEvents
            THEN IF defaultArenaEvents = <<>> THEN {1}
                 ELSE 1..Len(defaultArenaEvents)
            ELSE {})

nextDay(maxDays) ==
  IF ~hasGame
  THEN \* if (!games[id] || ...) reply "You must start a game first!"
       /\ pc \in {"idle", "nextDay"}
       /\ lastOp' = "nextDay:notStarted"
       /\ NoLocals
       /\ UNCHANGED <<configVars, gameVars, intervals, timers, autoVars>>
  ELSE IF ~hasCurrentGame
  THEN \* TypeError: games[id].currentGame is undefined
       /\ pc \in {"idle", "nextDay"}
       /\ lastOp' = "nextDay:noGame"
       /\ NoLocals
       /\ UNCHANGED <<configVars, gameVars, intervals, timers, autoVars>>
  ELSE /\ pc \in {"idle", "nextDay"}
       /\ UNCHANGED configVars
       /\ IF ~inProgress
          THEN /\ lastOp' = "nextDay:notStarted"
               /\ NoLocals
               /\ UNCHANGED <<gameVars, intervals, timers, autoVars>>
          ELSE IF DayAlreadyStarted
          THEN /\ lastOp' = "nextDay:refused"
               /\ intervals' = (intervals \/ day.state # 1)
               /\ timers' = (IF ~intervals /\ day.state # 1 THEN timers + 1 ELSE timers)
               /\ NoLocals
               /\ UNCHANGED <<gameVars, autoVars>>
          ELSE /\ day.num < maxDays
               /\ \E resurrect \in ResurrectDraws, arena \in ArenaDraws :
                    StartDay(resurrect, arena)

-----------------------------------------------------------------------------
(* nextDay: the selection of an event. *)

\* if (loop > 100)
MaxAttempts == 100

\* The keys of multiEventUserDistribution; their weights add up to exactly
\* 1.0 in double arithmetic, so weightedRand always returns one of them.
weightedRand == {1, 2, 3, 4, 6, 7}

Abs(n) == IF n < 0 THEN 0 - n ELSE n

eventEffectsNumMin(t) == Abs(t.victim.count) + Abs(t.attacker.count)

\* loop++; values above MaxAttempts are all the same to the code, and the
\* counter is held at MaxAttempts + 1.  A pass of the loop that finds the
\* counter there and leaves everything else as it was stands for the passes
\* in which the code only counts further.
NextLoop(l) == IF l > MaxAttempts THEN l ELSE l + 1

\* if (loop > 100) { ... day.state = 0; return; }
TooManyAttempts(l) == l > MaxAttempts

\* if (eventEffectsNumMin > userPool.length) continue;
NotEnoughPlayers(t, pool) == eventEffectsNumMin(t) > Len(pool)

\* Mutant: the draw is kept when it exceeds the pool by one.
DrawAgainOffByOne(nA, nV, pool) == nA + nV > Len(pool) + 1

\* } while (numAttacker + numVictim > userPool.length);
DrawAgain(nA, nV, pool) == nA + nV > Len(pool)

\* Number of entries of team.players that are living members of the pool.
NumPool(team, pool, users) ==
  Cardinality({j \in 1..Len(team.players) :
                 \E k \in 1..Len(pool) :
                   /\ pool[k] = team.players[j]
                   /\ users[UserIndexOf(users, pool[k])].living})

\* The first team with the most members in the pool: [index, size], index 1
\* and size 0 when no team has a member in the pool.
LargestTeam(ts, pool, users) ==
  LET sizes == [i \in 1..Len(ts) |-> NumPool(ts[i], pool, users)]
      best == FindIndex(ts, LAMBDA t :
                 /\ NumPool(t, pool, users) > 0
                 /\ \A j \in 1..Len(ts) : sizes[j] <= NumPool(t, pool, users))
  IN IF best = 0 THEN [index |-> 1, size |-> 0]
     ELSE [index |-> best, size |-> sizes[best]]

\* One side fits a team of `size` pool members and the other side the rest.
SidesFit(nA, nV, size, poolLen) ==
  \/ (nA <= size /\ nV <= poolLen - size)
  \/ (nV <= size /\ nA <= poolLen - size)

\* The team check without the count of the teams in the pool.
TeamsRejectSplitOnly(t, nA, nV, pool, ts, users) ==
  ~SidesFit(nA, nV, LargestTeam(ts, pool, users).size, Len(pool))

\* The rejections of the team collaboration mode.
TeamsReject(t, nA, nV, pool, ts, users) ==
  LET numTeams == Cardinality({i \in 1..Len(ts) : NumPool(ts[i], pool, users) > 0})
      largestTeam == LargestTeam(ts, pool, users)
  IN \/ /\ numTeams < 2
        /\ (t.attacker.outcome = "dies" \/ t.victim.outcome = "dies")
     \/ ~SidesFit(nA, nV, largestTeam.size, Len(pool))

\* Ensure the event we choose will not force all players to be dead.
NumRemaining(t, nA, nV, alive) ==
  alive - (IF t.victim.outcome = "dies" THEN nV ELSE 0)
        - (IF t.attacker.outcome = "dies" THEN nA ELSE 0)

AllDeadReject(t, nA, nV, alive) == NumRemaining(t, nA, nV, alive) < 1

Collaborate(opts) == opts.teammatesCollaborate /\ opts.teamSize > 0

\* Back at the head of the event loop after l attempts; the template and the
\* counts of the attempt are dead there (every pass assigns them anew).
LoopHead(l) ==
  /\ pc' = "loop"
  /\ loop' = l
  /\ eventTry' = NoEvent
  /\ numAttacker' = 0
  /\ numVictim' = 0

\* The checks that follow the resolution of the counts: the event is either
\* rejected (continue) or accepted (loop = 0).
Decide(t, nA, nV, l) ==
  /\ UNCHANGED <<gameVars, intervals, timers, autoVars, userPool, userEventPool, lastOp>>
  /\ IF \/ (Collaborate(options)
            /\ TeamsReject(t, nA, nV, userPool, teams, includedUsers))
        \/ (~options.allowNoVictors /\ AllDeadReject(t, nA, nV, numAlive))
     THEN LoopHead(l)
     ELSE /\ Len(day.events) < MaxEvents
          /\ pc' = "apply"
          /\ loop' = 0
          /\ eventTry' = t
          /\ numAttacker' = nA
          /\ numVictim' = nV

\* Math.floor(Math.random() * userEventPool.length)
EventDraws == IF userEventPool = <<>> THEN {0} ELSE 0..(Len(userEventPool) - 1)

\* One pass through the head of the event loop, up to the draw of the counts.
EventAttempt(eventIndex) ==
  LET l == NextLoop(loop)
      t == userEventPool[eventIndex + 1]
  IN IF eventIndex >= Len(userEventPool) \/ t = NoEvent
     THEN \* common.ERROR(...); continue;
          /\ LoopHead(l)
          /\ UNCHANGED <<gameVars, intervals,
                        timers, autoVars, userPool, userEventPool, lastOp>>
     ELSE IF TooManyAttempts(l)
     THEN /\ day' = [day EXCEPT !.state = 0]
          /\ NoLocals
          /\ lastOp' = "nextDay:noValidEvent"
          /\ UNCHANGED <<includedUsers, teams, numAlive, inProgress, ended, intervals,
                        timers, autoVars>>
     ELSE IF NotEnoughPlayers(t, userPool)
     THEN /\ LoopHead(l)
          /\ UNCHANGED <<gameVars, intervals,
                        timers, autoVars, userPool, userEventPool, lastOp>>
     ELSE IF t.attacker.count < 0 \/ t.victim.count < 0
     THEN /\ loop' = l
          /\ eventTry' = t
          /\ numAttacker' = t.attacker.count
          /\ numVictim' = t.victim.count
          /\ pc' = "draw"
          /\ UNCHANGED <<gameVars, intervals,
                        timers, autoVars, userPool, userEventPool, lastOp>>
     ELSE Decide(t, t.attacker.count, t.victim.count, l)

SelectEvent ==
  /\ pc = "loop"
  /\ userPool # <<>>
  /\ UNCHANGED configVars
  /\ \E eventIndex \in EventDraws : EventAttempt(eventIndex)

\* One pass through the do-while that draws the counts of an "at least N"
\* side; numAttacker and numVictim hold the template's counts until a draw
\* fits the pool.
DrawCounts ==
  /\ pc = "draw"
  /\ UNCHANGED configVars
  /\ \E ra \in weightedRand, rv \in weightedRand :
       LET nA == IF eventTry.attacker.count < 0
                 THEN ra + (0 - eventTry.attacker.count - 1)
                 ELSE eventTry.attacker.count
           nV == IF eventTry.victim.count < 0
                 THEN rv + (0 - eventTry.victim.count - 1)
                 ELSE eventTry.victim.count
       IN IF DrawAgain(nA, nV, userPool)
          THEN UNCHANGED <<gameVars, intervals, timers, autoVars, localVars, lastOp>>
          ELSE Decide(eventTry, nA, nV, loop)

-----------------------------------------------------------------------------
(* nextDay: the participants of an accepted event and its effects. *)

\* Mutant: the first member of the pool matches, whatever the team.
FindMatchingAny(pool, ts, validTeam, match) == IF pool = <<>> THEN 0 ELSE 1

\* userPool.splice(userIndex, 1)[0] for userIndex = findMatching(match): the
\* first pool member on validTeam (match) or not on it; an index of -1 takes
\* the last member, and an empty pool yields undefined (0).
FindMatching(pool, ts, validTeam, match) ==
  FindIndex(pool, LAMBDA id :
    IF match THEN TeamIndexOf(ts, id) = validTeam ELSE TeamIndexOf(ts, id) # validTeam)

RECURSIVE TeamPicks(_, _, _, _, _, _, _)
TeamPicks(pool, ts, validTeam, isAttacker, nV, n, i) ==
  IF i >= n THEN [effected |-> <<>>, pool |-> pool]
  ELSE LET match == (i < nV /\ ~isAttacker) \/ (i >= nV /\ isAttacker)
           found == FindMatching(pool, ts, validTeam, match)
           at == IF found = 0 THEN Len(pool) ELSE found
           rest == TeamPicks(IF pool = <<>> THEN pool ELSE RemoveAt(pool, at),
                             ts, validTeam, isAttacker, nV, n, i + 1)
       IN [rest EXCEPT !.effected = <<(IF pool = <<>> THEN 0 ELSE pool[at])>> \o @]

\* The participants in team collaboration mode: the first team that fits
\* gives one side, everybody else the other.
TeamSelection(pool, ts, users, nA, nV) ==
  LET asAttacker(t) == nA <= NumPool(t, pool, users)
                       /\ nV <= Len(pool) - NumPool(t, pool, users)
      asVictim(t) == nV <= NumPool(t, pool, users)
                     /\ nA <= Len(pool) - NumPool(t, pool, users)
      validTeam == FindIndex(ts, LAMBDA t : asAttacker(t) \/ asVictim(t))
      isAttacker == validTeam > 0 /\ asAttacker(ts[validTeam])
  IN {TeamPicks(pool, ts, validTeam, isAttacker, nV, nA + nV, 0)}

\* The participants without team collaboration: n times a random member of
\* what is left of the pool.
RECURSIVE RandomSelection(_, _)
RandomSelection(pool, n) ==
  IF n = 0 THEN {[effected |-> <<>>, pool |-> pool]}
  ELSE IF pool = <<>>
  THEN {[r EXCEPT !.effected = <<0>> \o @] : r \in RandomSelection(pool, n - 1)}
  ELSE UNION {{[r EXCEPT !.effected = <<pool[k]>> \o @] :
                 r \in RandomSelection(RemoveAt(pool, k), n - 1)} :
              k \in 1..Len(pool)}

\* effectUser(i, kills)
effectUser(g, id, kills) ==
  LET index == UserIndexOf(g.users, id)
  IN [g EXCEPT !.users[index].bleeding = (@ \/ g.users[index].state = "wounded"),
               !.users[index].kills = @ + kills]

\* Mutant: the rank is the number of teams left, without the + 1.
TeamRankTeamsLeft(ts) == Cardinality({i \in 1..Len(ts) : ts[i].numAlive > 0})

\* team.rank = teamsLeft + 1
TeamRank(ts) == Cardinality({i \in 1..Len(ts) : ts[i].numAlive > 0}) + 1

\* Mutant: the team of a dead player keeps its count.
TeamLosesNothing(ts, t) == ts

\* team.numAlive--, and the rank of a team that lost its last member
TeamLoses(ts, t) ==
  LET ts1 == [ts EXCEPT ![t].numAlive = @ - 1]
  IN IF ts1[t].numAlive = 0 THEN [ts1 EXCEPT ![t].rank = TeamRank(ts1)] ELSE ts1

\* Mutant: the rank is numAlive after its decrement (--numAlive).
DeadPreDecrement(obj, alive) ==
  [obj EXCEPT !.living = FALSE, !.bleeding = FALSE, !.state = "dead",
              !.rank = alive - 1]

\* Mutant: the dead player keeps the bleeding flag.
DeadStillBleeding(obj, alive) ==
  [obj EXCEPT !.living = FALSE, !.state = "dead", !.rank = alive]

\* Mutant: the dead player keeps the health state.
DeadKeepsState(obj, alive) ==
  [obj EXCEPT !.living = FALSE, !.bleeding = FALSE, !.rank = alive]

\* The player's record after a death with `alive` players living before it.
Dead(obj, alive) ==
  [obj EXCEPT !.living = FALSE, !.bleeding = FALSE, !.state = "dead", !.rank = alive]

\* Mutant: the death leaves numAlive as it was.
killUserKeepsCount(g, id, kills, teamSize) ==
  LET g1 == effectUser(g, id, kills)
      index == UserIndexOf(g.users, id)
      t == TeamIndexOf(g.teams, id)
  IN [g1 EXCEPT !.users[index] = Dead(@, g.numAlive),
                !.teams = IF teamSize > 0 /\ t > 0 THEN TeamLoses(@, t) ELSE @]

\* killUser(i, k)
killUser(g, id, kills, teamSize) ==
  LET g1 == effectUser(g, id, kills)
      index == UserIndexOf(g.users, id)
      t == TeamIndexOf(g.teams, id)
  IN [g1 EXCEPT !.users[index] = Dead(@, g.numAlive),
                !.numAlive = @ - 1,
                !.teams = IF teamSize > 0 /\ t > 0 THEN TeamLoses(@, t) ELSE @]

\* woundUser(i, k)
woundUser(g, id, kills) ==
  LET index == UserIndexOf(g.users, id)
  IN [effectUser(g, id, kills) EXCEPT !.users[index].state = "wounded"]

\* restoreUser(i, k)
restoreUser(g, id, kills) ==
  LET index == UserIndexOf(g.users, id)
  IN [effectUser(g, id, kills) EXCEPT !.users[index].state = "normal"]

\* switch (outcome) { case "dies": ... }
Outcome(g, id, side, kills, teamSize) ==
  IF side.outcome = "dies" THEN killUser(g, id, kills, teamSize)
  ELSE IF side.outcome = "wounded" THEN woundUser(g, id, kills)
  ELSE IF side.outcome = "thrives" THEN restoreUser(g, id, kills)
  ELSE effectUser(g, id, kills)

\* The two for loops over effectedUsers, from index i (0-based) on; an
\* undefined participant throws and ends them.
RECURSIVE Effects(_, _, _, _, _, _, _)
Effects(g, effected, t, nA, nV, teamSize, i) ==
  IF i >= nA + nV THEN g
  ELSE IF effected[i + 1] = 0 THEN [g EXCEPT !.thrown = TRUE]
  ELSE LET side == IF i < nV THEN t.victim ELSE t.attacker
           kills == IF ~side.killer THEN 0 ELSE IF i < nV THEN nA ELSE nV
       IN Effects(Outcome(g, effected[i + 1], side, kills, teamSize),
                  effected, t, nA, nV, teamSize, i + 1)

ApplyEvent ==
  /\ pc = "apply"
  /\ UNCHANGED <<configVars, inProgress, ended, intervals, timers, autoVars, userEventPool>>
  /\ \E sel \in (IF Collaborate(options)
                 THEN TeamSelection(userPool, teams, includedUsers, numAttacker, numVictim)
                 ELSE RandomSelection(userPool, numAttacker + numVictim)) :
       LET g == Effects([users |-> includedUsers, teams |-> teams,
                         numAlive |-> numAlive, thrown |-> FALSE],
                        sel.effected, eventTry, numAttacker, numVictim,
                        options.teamSize, 0)
       IN /\ includedUsers' = g.users
          /\ teams' = g.teams
          /\ numAlive' = g.numAlive
          /\ IF g.thrown
             THEN /\ NoLocals
                  /\ lastOp' = "nextDay:thrown"
                  /\ UNCHANGED day
             ELSE /\ day' = [day EXCEPT !.events =
                               Append(@, makeSingleEvent(eventTry.message, sel.effected,
                                                         numVictim, numAttacker))]
                  /\ userPool' = sel.pool
                  /\ LoopHead(loop)
                  /\ UNCHANGED lastOp

-----------------------------------------------------------------------------
(* nextDay: the bleeding players at the end of the day. *)

\* Mutant: the last survivor is not spared.
BleedsToDeathUnchecked(drawn, allowNoVictors, alive) == drawn

\* Math.random() < probabilityOfBleedToDeath &&
\*     (allowNoVictors || numAlive > 1)
BleedsToDeath(drawn, allowNoVictors, alive) == drawn /\ (allowNoVictors \/ alive > 1)

\* Mutant: the player who recovers keeps the bleeding flag.
RecoveredStillBleeding(obj) == [obj EXCEPT !.state = "normal"]

\* obj.bleeding = false; obj.state = "normal";
Recovered(obj) == [obj EXCEPT !.bleeding = FALSE, !.state = "normal"]

\* Mutant: every check of the pass reads the numAlive the pass started with.
RECURSIVE BleedPassFromStart(_, _, _, _)
BleedPassFromStart(g, dies, allowNoVictors, i) ==
  IF i > Len(g.users) THEN g
  ELSE LET obj == g.users[i] IN
       IF ~(obj.bleeding /\ obj.living)
       THEN BleedPassFromStart(g, dies, allowNoVictors, i + 1)
       ELSE IF BleedsToDeath(i \in dies, allowNoVictors,
                             g.numAlive + Len(g.usersBleeding))
       THEN LET t == TeamIndexOf(g.teams, obj.id)
                g1 == [g EXCEPT !.usersBleeding = Append(@, obj.id),
                                !.users[i] = Dead(@, g.numAlive),
                                !.numAlive = @ - 1]
            IN IF t = 0 THEN [g1 EXCEPT !.thrown = TRUE]
               ELSE BleedPassFromStart([g1 EXCEPT !.teams = TeamLoses(@, t)],
                                       dies, allowNoVictors, i + 1)
       ELSE BleedPassFromStart([g EXCEPT !.usersRecovered = Append(@, obj.id),
                                         !.users[i] = Recovered(@)],
                               dies, allowNoVictors, i + 1)

\* includedUsers.forEach over the bleeding players, from index i on.  dies is
\* the set of indices whose draw is below probabilityOfBleedToDeath.  thrown:
\* no team holds the player, and team.numAlive-- throws a TypeError.
RECURSIVE BleedPass(_, _, _, _)
BleedPass(g, dies, allowNoVictors, i) ==
  IF i > Len(g.users) THEN g
  ELSE LET obj == g.users[i] IN
       IF ~(obj.bleeding /\ obj.living) THEN BleedPass(g, dies, allowNoVictors, i + 1)
       ELSE IF BleedsToDeath(i \in dies, allowNoVictors, g.numAlive)
       THEN LET t == TeamIndexOf(g.teams, obj.id)
                g1 == [g EXCEPT !.usersBleeding = Append(@, obj.id),
                                !.users[i] = Dead(@, g.numAlive),
                                !.numAlive = @ - 1]
            IN IF t = 0 THEN [g1 EXCEPT !.thrown = TRUE]
               ELSE BleedPass([g1 EXCEPT !.teams = TeamLoses(@, t)],
                              dies, allowNoVictors, i + 1)
       ELSE BleedPass([g EXCEPT !.usersRecovered = Append(@, obj.id),
                                !.users[i] = Recovered(@)],
                      dies, allowNoVictors, i + 1)

\* Mutant: the reveal starts one state further.
StateRevealingSkips == 2 + 1

\* games[id].currentGame.day.state = 2;
StateRevealing == 2

\* The end of nextDay, after the event loop.
FinishDay ==
  /\ pc = "loop"
  /\ userPool = <<>>
  /\ UNCHANGED <<configVars, inProgress, ended>>
  /\ \E dies \in SUBSET {i \in 1..Len(includedUsers) :
                          includedUsers[i].bleeding /\ includedUsers[i].living} :
       LET g == BleedPass([users |-> includedUsers, teams |-> teams,
                           numAlive |-> numAlive, usersBleeding |-> <<>>,
                           usersRecovered |-> <<>>, thrown |-> FALSE],
                          dies, options.allowNoVictors, 1)
           events1 == IF Len(g.usersRecovered) > 0
                      THEN Append(day.events,
                                  makeSingleEvent("recovered", g.usersRecovered,
                                                  Len(g.usersRecovered), 0))
                      ELSE day.events
           events2 == IF Len(g.usersBleeding) > 0
                      THEN Append(events1,
                                  makeSingleEvent("bled", g.usersBleeding,
                                                  Len(g.usersBleeding), 0))
                      ELSE events1
       IN /\ includedUsers' = g.users
          /\ teams' = g.teams
          /\ numAlive' = g.numAlive
          /\ NoLocals
          /\ IF g.thrown
             THEN /\ lastOp' = "nextDay:thrown"
                  /\ UNCHANGED <<day, intervals, timers, autoVars>>
             ELSE /\ day' = [day EXCEPT !.events = events2, !.state = StateRevealing]
                  /\ intervals' = TRUE
                  /\ timers' = timers + 1
                  /\ UNCHANGED autoVars
                  /\ lastOp' = "nextDay:done"

-----------------------------------------------------------------------------
(* printEvent, the callback of the reveal timer, and printDay. *)

\* The comparator of the status update: by team, then by id.
TeamOrder(users, ts) ==
  SortByKey(users, [i \in 1..Len(users) |->
                      TeamIndexOf(ts, users[i].id) * (Len(users) + 1) + users[i].id])

\* includedUsers.sort(function(a, b) { return a.rank - b.rank; })
RankOrder(users) == SortByKey(users, [i \in 1..Len(users) |-> users[i].rank])

\* Mutant: the teams are not counted.
GameOverPlayersOnly(users, ts, teamSize) == Cardinality(Living(users)) <= 1

\* The game is over when one team, one player or nobody is left.
GameOver(users, ts, teamSize) ==
  LET alive == Cardinality(Living(users))
      numTeams == IF teamSize > 0
                  THEN Cardinality({i \in 1..Len(ts) : ts[i].numAlive > 0})
                  ELSE 0
  IN numTeams = 1 \/ alive = 1 \/ alive < 1

printDay ==
  LET over == GameOver(includedUsers, teams, options.teamSize)
      users1 == IF ~over /\ options.teamSize > 0
                THEN TeamOrder(includedUsers, teams)
                ELSE includedUsers
      nowEnded == IF over THEN TRUE ELSE ended
  IN /\ inProgress' = (IF over THEN FALSE ELSE inProgress)
     /\ ended' = nowEnded
     /\ includedUsers' = (IF nowEnded THEN RankOrder(users1) ELSE users1)
     /\ day' = [day EXCEPT !.state = 0]
     /\ autoPlay' = (IF over THEN FALSE ELSE autoPlay)
     /\ IF autoPlay /\ ~over
        THEN \* client.setTimeout(function() { nextDay(msg, id); }, delayDays)
             /\ dayTimers < MaxDayTimers
             /\ dayTimers' = dayTimers + 1
        ELSE UNCHANGED dayTimers
     /\ UNCHANGED <<teams, numAlive>>

\* Mutant: the index counts from day.state 1.
RevealIndexFromOne(d) == d.state - 1

\* var index = games[id].currentGame.day.state - 2;
RevealIndex(d) == d.state - 2

printEvent ==
  IF ~hasCurrentGame
  THEN timers > 0 /\ NoCurrentGame("printEvent:noGame")
  ELSE /\ pc = "idle"
       /\ timers > 0
       /\ UNCHANGED <<configVars, localVars>>
       /\ LET index == RevealIndex(day) IN
          IF index = Len(day.events)
          THEN /\ intervals' = FALSE
               /\ timers' = ClearInterval
               /\ printDay
               /\ lastOp' = "printEvent:printDay"
          ELSE IF index >= 0 /\ index < Len(day.events)
          THEN /\ day' = [day EXCEPT !.state = @ + 1]
               /\ lastOp' = "printEvent"
               /\ UNCHANGED <<includedUsers, teams, numAlive, inProgress, ended, intervals,
                             timers, autoVars>>
          ELSE \* events[index] is undefined: TypeError
               /\ lastOp' = "printEvent:thrown"
               /\ UNCHANGED <<gameVars, intervals, timers, autoVars>>

-----------------------------------------------------------------------------
(* endGame and resetGame with "teams". *)

\* Mutant: the game that is ended stays in progress.
endGameStillInProgress ==
  /\ pc = "idle"
  /\ hasGame /\ hasCurrentGame /\ inProgress
  /\ ended' = TRUE
  /\ intervals' = FALSE
  /\ timers' = ClearInterval
  /\ lastOp' = "endGame"
  /\ UNCHANGED <<configVars, localVars, includedUsers, teams, numAlive, day,
                 inProgress, autoVars>>

endGame ==
  IF ~hasGame
  THEN \* if (!games[id] || ...) reply "There isn't a game in progress."
       /\ pc = "idle"
       /\ lastOp' = "endGame:refused"
       /\ UNCHANGED <<configVars, gameVars, intervals, timers, autoVars, localVars>>
  ELSE IF ~hasCurrentGame
  THEN NoCurrentGame("endGame:noGame")
  ELSE /\ pc = "idle"
       /\ UNCHANGED <<configVars, localVars, includedUsers, teams, numAlive, day>>
       /\ IF ~inProgress
          THEN /\ lastOp' = "endGame:refused"
               /\ UNCHANGED <<inProgress, ended, intervals, timers, autoVars>>
          ELSE /\ inProgress' = FALSE
               /\ ended' = TRUE
               /\ intervals' = FALSE
               /\ timers' = ClearInterval
               /\ UNCHANGED autoVars
               /\ lastOp' = "endGame"

\* games[id].currentGame.teams = []; formTeams(id);
resetTeams ==
  IF ~hasCurrentGame
  THEN NoCurrentGame("resetTeams:noGame")
  ELSE /\ pc = "idle"
       /\ LET size == IF options.teamSize < 0 THEN 0 ELSE options.teamSize
          IN /\ SetOptions([options EXCEPT !.teamSize = size])
             /\ teams' = formTeams(size, includedUsers, <<>>)
       /\ lastOp' = "resetTeams"
       /\ UNCHANGED <<hasCurrentGame, hasGame, ownOptions,
                      defaultBloodbathEvents, defaultPlayerEvents,
                      defaultArenaEvents,
                      members, excludedUsers, includedUsers, numAlive, inProgress,
                      ended, day,
                      intervals, timers, autoVars, localVars>>

\* No more timers than this run at a time.
MaxTimers == 2

\* delete games[id].currentGame; a reveal timer that runs goes on running.
resetCurrent ==
  /\ pc = "idle"
  /\ intervals => timers < MaxTimers
  /\ hasCurrentGame' = FALSE
  /\ includedUsers' = <<>>
  /\ teams' = <<>>
  /\ numAlive' = 0
  /\ inProgress' = FALSE
  /\ ended' = FALSE
  /\ day' = [num |-> 0, state |-> 0, events |-> <<>>]
  /\ lastOp' = "resetCurrent"
  /\ UNCHANGED <<options, otherOptions, hasGame, ownOptions,
                 defaultBloodbathEvents,
                 defaultPlayerEvents, defaultArenaEvents, members, excludedUsers,
                 intervals, timers, autoVars, localVars>>

-----------------------------------------------------------------------------
(* editTeam with "swap", "reset" and "rename". *)

\* Mutant: the place of user2 is not written.
swapTeamUsersOnePlace(ts, user1, user2) ==
  LET teamId1 == TeamIndexOf(ts, user1)
      teamId2 == TeamIndexOf(ts, user2)
      playerId1 == FindIndex(ts[teamId1].players, LAMBDA player : player = user1)
  IN IF teamId1 = 0 \/ teamId2 = 0 THEN ts
     ELSE [ts EXCEPT ![teamId1].players[playerId1] = user2]

\* swapTeamUsers for a message that mentions user1 and user2.
swapTeamUsers(ts, user1, user2) ==
  LET teamId1 == TeamIndexOf(ts, user1)
      teamId2 == TeamIndexOf(ts, user2)
      playerId1 == FindIndex(ts[teamId1].players, LAMBDA player : player = user1)
      playerId2 == FindIndex(ts[teamId2].players, LAMBDA player : player = user2)
      intVal == ts[teamId1].players[playerId1]
      ts1 == [ts EXCEPT ![teamId1].players[playerId1] = ts[teamId2].players[playerId2]]
  IN IF teamId1 = 0 \/ teamId2 = 0 THEN ts
     ELSE [ts1 EXCEPT ![teamId2].players[playerId2] = intVal]

editTeam(command, user1, user2) ==
  IF ~hasCurrentGame
  THEN NoCurrentGame("editTeam:noGame")
  ELSE /\ pc = "idle"
       /\ IF inProgress /\ command \in {"swap", "reset"}
          THEN /\ lastOp' = "editTeam:refused"
               /\ UNCHANGED <<teams, options, otherOptions>>
          ELSE IF command = "swap"
          THEN /\ teams' = swapTeamUsers(teams, user1, user2)
               /\ lastOp' = "editTeam:swap"
               /\ UNCHANGED <<options, otherOptions>>
          ELSE IF command = "reset"
          THEN LET size == IF options.teamSize < 0 THEN 0 ELSE options.teamSize
               IN /\ SetOptions([options EXCEPT !.teamSize = size])
                  /\ teams' = formTeams(size, includedUsers, <<>>)
                  /\ lastOp' = "editTeam:reset"
          ELSE \* renameTeam writes the name of a team
               /\ lastOp' = "editTeam:rename"
               /\ UNCHANGED <<teams, options, otherOptions>>
       /\ UNCHANGED <<hasCurrentGame, hasGame, ownOptions,
                      defaultBloodbathEvents, defaultPlayerEvents,
                      defaultArenaEvents,
                      members, excludedUsers, includedUsers, numAlive, inProgress,
                      ended, day, intervals, timers, autoVars, localVars>>

\* The commands a host sends: two different members are mentioned.
EditTeam ==
  \E command \in {"swap", "reset", "rename"}, user1, user2 \in Range(members) :
    /\ user1 # user2
    /\ editTeam(command, user1, user2)

-----------------------------------------------------------------------------
(* excludeUser and includeUser, for a message that mentions one user. *)

Mentioned == {user \in Range(members) : user <= MaxMentioned}

\* Mutant: a player is removed while the game is in progress too.
NotStartedOrInProgress(progress, over) == ~over

\* !games[id].currentGame.inProgress && !games[id].currentGame.ended
NotStarted(progress, over) == ~progress /\ ~over

excludeUser ==
  IF ~hasGame
  THEN NoGame("excludeUser:noData")
  ELSE IF ~hasCurrentGame
  THEN /\ pc = "idle"
       /\ \E user \in Mentioned :
            excludedUsers' = IF user \in Range(excludedUsers) THEN excludedUsers
                             ELSE Append(excludedUsers, user)
       /\ lastOp' = "excludeUser:noGame"
       /\ UNCHANGED <<options, otherOptions, hasCurrentGame, hasGame, ownOptions,
                      defaultBloodbathEvents,
                      defaultPlayerEvents, defaultArenaEvents, members, gameVars,
                      intervals, timers, autoVars, localVars>>
  ELSE /\ pc = "idle"
       /\ \E user \in Mentioned :
            IF user \in Range(excludedUsers)
            THEN UNCHANGED <<excludedUsers, includedUsers, teams, options, otherOptions>>
            ELSE /\ excludedUsers' = Append(excludedUsers, user)
                 /\ LET index == UserIndexOf(includedUsers, user)
                        size == IF options.teamSize < 0 THEN 0 ELSE options.teamSize
                        users == RemoveAt(includedUsers, index)
                    IN IF NotStarted(inProgress, ended) /\ index > 0
                       THEN /\ includedUsers' = users
                            /\ SetOptions([options EXCEPT !.teamSize = size])
                            /\ teams' = formTeams(size, users, teams)
                       ELSE UNCHANGED <<includedUsers, teams, options, otherOptions>>
       /\ lastOp' = "excludeUser"
       /\ UNCHANGED <<hasCurrentGame, hasGame, ownOptions,
                      defaultBloodbathEvents, defaultPlayerEvents,
                      defaultArenaEvents,
                      members, numAlive, inProgress, ended, day, intervals,
                                    timers, autoVars, localVars>>

includeUser ==
  IF ~hasGame
  THEN NoGame("includeUser:noData")
  ELSE IF ~hasCurrentGame
  THEN /\ pc = "idle"
       /\ \E user \in Mentioned :
            excludedUsers' = SelectSeq(excludedUsers, LAMBDA x : x # user)
       /\ lastOp' = "includeUser:noGame"
       /\ UNCHANGED <<options, otherOptions, hasCurrentGame, hasGame, ownOptions,
                      defaultBloodbathEvents,
                      defaultPlayerEvents, defaultArenaEvents, members, gameVars,
                      intervals, timers, autoVars, localVars>>
  ELSE /\ pc = "idle"
       /\ \E user \in Mentioned :
            LET size == IF options.teamSize < 0 THEN 0 ELSE options.teamSize
            IN /\ excludedUsers' = SelectSeq(excludedUsers, LAMBDA x : x # user)
               /\ IF inProgress
                  THEN UNCHANGED <<includedUsers, teams, options, otherOptions>>
                  ELSE IF options.teamSize = 0
                  THEN /\ Len(includedUsers) < MaxIncluded
                       /\ includedUsers' = Append(includedUsers, Player(user))
                       /\ UNCHANGED <<teams, options, otherOptions>>
                  ELSE /\ SetOptions([options EXCEPT !.teamSize = size])
                       /\ teams' = formTeams(size, includedUsers, teams)
                       /\ UNCHANGED includedUsers
       /\ lastOp' = "includeUser"
       /\ UNCHANGED <<hasCurrentGame, hasGame, ownOptions,
                      defaultBloodbathEvents, defaultPlayerEvents,
                      defaultArenaEvents,
                      members, numAlive, inProgress, ended, day, intervals,
                                    timers, autoVars, localVars>>

-----------------------------------------------------------------------------
(* toggleOpt and resetGame with "options".  The words of a command are       *)
(* sequences of characters.                                                  *)

DigitOf(c) ==
  CASE c = "0" -> 0 [] c = "1" -> 1 [] c = "2" -> 2 [] c = "3" -> 3 [] c = "4" -> 4
    [] c = "5" -> 5 [] c = "6" -> 6 [] c = "7" -> 7 [] c = "8" -> 8 [] c = "9" -> 9
    [] OTHER -> 0 - 1

RECURSIVE Decimal(_)
Decimal(chars) ==
  IF chars = <<>> THEN 0
  ELSE 10 * Decimal(SubSeq(chars, 1, Len(chars) - 1)) + DigitOf(chars[Len(chars)])

AllDigits(chars) == chars # <<>> /\ \A i \in 1..Len(chars) : DigitOf(chars[i]) >= 0

\* Number(value) for a word that is missing (<<>>, undefined), a decimal
\* integer with or without a minus sign, or any other word without digits.
Number(value) ==
  IF AllDigits(value) THEN Num(Decimal(value))
  ELSE IF value # <<>> /\ Head(value) = "-" /\ AllDigits(Tail(value))
  THEN Num(0 - Decimal(Tail(value)))
  ELSE NaN

\* typeof defaultOptions[option]
TypeOfOption(option) ==
  IF option \notin DOMAIN options THEN "undefined"
  ELSE IF option \in {"teamSize", "delayEvents"} THEN "number"
  ELSE "boolean"

WordTrue == <<"t", "r", "u", "e">>

WordFalse == <<"f", "a", "l", "s", "e">>

\* The first word of the command: none, a name that is no option, or an option.
OptionNames == {"", "bogus", "teamSize", "delayEvents", "resurrection"}

\* The second word of the command: none, numbers, words.
OptionValues == {<<>>, <<"2">>, <<"-", "1">>, <<"a", "b", "c">>, WordTrue, WordFalse}

toggleOpt(option, value) ==
  IF ~hasCurrentGame
  THEN NoCurrentGame("toggleOpt:noGame")
  ELSE /\ pc = "idle"
       /\ UNCHANGED <<hasCurrentGame, hasGame, ownOptions,
                      defaultBloodbathEvents, defaultPlayerEvents,
                      defaultArenaEvents,
                      members, excludedUsers, gameVars, intervals,
                                    timers, autoVars, localVars>>
       /\ IF option = ""
          THEN /\ lastOp' = "toggleOpt:list"
               /\ UNCHANGED <<options, otherOptions>>
          ELSE IF inProgress
          THEN /\ lastOp' = "toggleOpt:refused"
               /\ UNCHANGED <<options, otherOptions>>
          ELSE IF TypeOfOption(option) = "undefined"
          THEN /\ lastOp' = "toggleOpt:invalidOption"
               /\ UNCHANGED <<options, otherOptions>>
          ELSE IF TypeOfOption(option) = "number"
          THEN \* typeof Number(value) !== 'number' is false for every value
               /\ SetOptions([options EXCEPT ![option] =
                               IF option = "teamSize" THEN Number(value).n
                               ELSE Number(value)])
               /\ lastOp' = "toggleOpt:set"
          ELSE IF value \in {WordTrue, WordFalse}
          THEN /\ SetOptions([options EXCEPT ![option] = (value = WordTrue)])
               /\ lastOp' = "toggleOpt:set"
          ELSE /\ lastOp' = "toggleOpt:invalidValue"
               /\ UNCHANGED <<options, otherOptions>>

\* The commands a host sends; a teamSize that is not a number is left out
\* (the arithmetic of the game on NaN is not modelled).
ToggleOpt ==
  \E option \in OptionNames, value \in OptionValues :
    /\ option = "teamSize" => ~Number(value).nan
    /\ toggleOpt(option, value)

\* games[id].options = defaultOptions; the options of a game made by
\* createGame are that object already.
resetOptions ==
  /\ pc = "idle"
  /\ lastOp' = "resetOptions"
  /\ options' = (IF hasGame THEN otherOptions ELSE options)
  /\ ownOptions' = (~hasGame /\ ownOptions)
  /\ UNCHANGED <<otherOptions, hasCurrentGame, hasGame, defaultBloodbathEvents,
                 defaultPlayerEvents, defaultArenaEvents, members, excludedUsers,
                 gameVars, intervals, timers, autoVars, localVars>>

-----------------------------------------------------------------------------

Next ==
  \/ startGame
  \/ nextDay(MaxDays)
  \/ SelectEvent
  \/ DrawCounts
  \/ ApplyEvent
  \/ FinishDay
  \/ printEvent
  \/ endGame
  \/ resetTeams
  \/ excludeUser
  \/ includeUser

Spec == Init /\ [][Next]_vars

-----------------------------------------------------------------------------
(* Properties. *)

NumLiving == Cardinality(Living(includedUsers))

\* The steps that are a call of nextDay (a handler starts only from "idle").
NextDayCalled ==
  pc = "idle" /\ lastOp' \in {"nextDay", "nextDay:refused", "nextDay:thrown",
                              "nextDay:notStarted"}

C2_TeamAliveCountsLiving ==
  options.teamSize > 0 =>
    \A t \in 1..Len(teams) :
      teams[t].numAlive =
        Cardinality({j \in 1..Len(teams[t].players) :
                       \E i \in Living(includedUsers) :
                         includedUsers[i].id = teams[t].players[j]})

\* C3: a call of nextDay on a game in progress whose day.state is not 0 runs
\* no event loop and leaves the day number, the event log, the players,
\* numAlive and the teams as they are.
C3_StartedDayIsRefused ==
  [][(NextDayCalled /\ inProgress /\ day.state # 0) =>
       /\ pc' = "idle"
       /\ day'.num = day.num
       /\ day'.events = day.events
       /\ UNCHANGED <<includedUsers, numAlive, teams>>]_vars

\* nextDay was refused while the events of a simulated day, in which a player
\* died, were being revealed.
C3_Witness ==
  /\ lastOp = "nextDay:refused"
  /\ day.state >= 2
  /\ numAlive < Len(includedUsers)

\* C5: once nextDay has set day.state to 1 it returns with day.state 2 or 0;
\* no handler ever returns with day.state = 1.
C5_NeverLeftSimulating == pc = "idle" => day.state # 1

\* C6: at the head of the event loop at most 100 attempts have failed in a
\* row; the attempt after the 100th ends the day.
C6_AttemptsBounded == pc = "loop" => loop <= MaxAttempts

\* C7: the resolved counts of an accepted event are not negative and their
\* sum is at most the size of the pool the participants are taken from.
C7_AcceptedEventFitsPool ==
  pc = "apply" =>
    /\ numVictim >= 0
    /\ numAttacker >= 0
    /\ numVictim + numAttacker <= Len(userPool)

\* An "at least N" side was resolved to more than its minimum and the event
\* takes the whole pool.
C7_Witness ==
  /\ pc = "apply"
  /\ eventTry.victim.count < 0
  /\ numVictim > 0 - eventTry.victim.count
  /\ numVictim + numAttacker = Len(userPool)

\* C8: with allowNoVictors disabled numAlive never falls below 1.
C8_SomeoneSurvives == ~options.allowNoVictors => numAlive >= 1

\* The last survivor was bleeding, and the day ended with their recovery.
C8_Witness ==
  /\ ~options.allowNoVictors
  /\ lastOp = "nextDay:done"
  /\ numAlive = 1
  /\ \E i \in 1..Len(day.events) : day.events[i].message = "recovered"

RankOf(users, id) == users[UserIndexOf(users, id)].rank

IsLiving(users, id) == users[UserIndexOf(users, id)].living

\* A player who dies in a step ranks strictly better than every player who
\* was dead before the step and stays dead.
LaterDeathRanksBetter ==
  LET ids == {includedUsers[i].id : i \in 1..Len(includedUsers)}
      ids1 == {includedUsers'[i].id : i \in 1..Len(includedUsers')}
      died == {p \in ids \cap ids1 :
                 IsLiving(includedUsers, p) /\ ~IsLiving(includedUsers', p)}
      stayed == {q \in ids \cap ids1 :
                   ~IsLiving(includedUsers, q) /\ ~IsLiving(includedUsers', q)}
  IN \A p \in died, q \in stayed : RankOf(includedUsers', p) < RankOf(includedUsers', q)

C10_EliminatedTeamsRankDistinct ==
  \A a, b \in 1..Len(teams) :
    (/\ a # b
     /\ Len(teams[a].players) > 0 /\ teams[a].numAlive = 0
     /\ Len(teams[b].players) > 0 /\ teams[b].numAlive = 0)
    => teams[a].rank # teams[b].rank

\* The steps of the day simulation, without the host's other commands.
NextRanks ==
  \/ startGame
  \/ nextDay(RankDays)
  \/ SelectEvent
  \/ DrawCounts
  \/ ApplyEvent
  \/ FinishDay
  \/ printEvent

SpecRanks == InitWith(RankSetups) /\ [][NextRanks]_vars

\* C4: a call of nextDay returns: the handler, once inside its event loop,
\* leaves it again.
C4_NextDayReturns == (pc # "idle") ~> (pc = "idle")

\* A game without templates, and a game whose templates have "at least N"
\* sides.
LoopSetups ==
  {Setup(MaxPlayers, Options(0, TRUE, TRUE, FALSE, FALSE), NoFile),
   Setup(MaxPlayers, Options(2, TRUE, TRUE, FALSE, FALSE), MassacreFile)}

NextLoops ==
  \/ startGame
  \/ nextDay(MaxDays)
  \/ SelectEvent
  \/ DrawCounts
  \/ ApplyEvent
  \/ FinishDay
  \/ printEvent

\* A handler that has started keeps running (JavaScript runs it to its end
\* without interruption), and a draw that is repeated forever does not give
\* the rejected result forever.
\* A guild of two, the options at their defaults but for arenaEvents.
OptionSetups == {Setup(2, Options(0, TRUE, TRUE, FALSE, FALSE), MassacreFile)}

NextOptions ==
  \/ Next
  \/ ToggleOpt
  \/ resetOptions

SpecOptions == InitWith(OptionSetups) /\ [][NextOptions]_vars

\* No team of the model holds more players than this.
MaxTeamSize == 2

\* Guilds of three and of four with teams of two.
TeamSetups == {Setup(n, Options(MaxTeamSize, TRUE, TRUE, FALSE, FALSE), NoFile) : n \in {3, 4}}

NextTeams ==
  \/ createGame
  \/ startGame
  \/ endGame
  \/ resetTeams
  \/ EditTeam
  \/ excludeUser
  \/ includeUser

SpecTeams == InitCreated(TeamSetups) /\ [][NextTeams]_vars

\* A guild of two.
TimerSetups == {Setup(2, Options(0, TRUE, TRUE, FALSE, FALSE), MassacreFile)}

NextTimers ==
  \/ createGame
  \/ startGame
  \/ nextDay(MaxDays)
  \/ SelectEvent
  \/ DrawCounts
  \/ ApplyEvent
  \/ FinishDay
  \/ printEvent
  \/ endGame
  \/ resetCurrent

SpecTimers == InitWith(TimerSetups) /\ [][NextTimers]_vars

SpecLoops ==
  /\ InitWith(LoopSetups)
  /\ [][NextLoops]_vars
  /\ WF_vars(SelectEvent)
  /\ WF_vars(DrawCounts)
  /\ WF_vars(ApplyEvent)
  /\ WF_vars(FinishDay)

-----------------------------------------------------------------------------
(* Team ranks at elimination. *)

\* The teams whose numAlive a step brings from above 0 to 0.
EliminatedInStep ==
  {t \in 1..Len(teams) : teams[t].numAlive > 0 /\ teams'[t].numAlive = 0}

TeamsLeft(ts) == Cardinality({i \in 1..Len(ts) : ts[i].numAlive > 0})

\* C11: a team whose numAlive a death brings to 0 gets the rank (teams with
\* numAlive > 0 at that moment) + 1.  A step of the day simulation applies
\* its deaths one after the other, so the teams it eliminates take the ranks
\* from (teams left after the step) + 1 upward, one each.
C11_EliminatedTeamRank ==
  [][(pc # "idle" /\ Len(teams') = Len(teams))
       => /\ {teams'[t].rank : t \in EliminatedInStep}
               = (TeamsLeft(teams') + 1)..(TeamsLeft(teams') + Cardinality(EliminatedInStep))
          /\ \A a, b \in EliminatedInStep :
               a # b => teams'[a].rank # teams'[b].rank]_vars

\* A day ended in which a team lost its last member by bleeding while another
\* team was left.
C11_Witness ==
  /\ lastOp = "nextDay:done"
  /\ \E i \in 1..Len(day.events) : day.events[i].message = "bled"
  /\ \E t \in 1..Len(teams) :
       /\ Len(teams[t].players) > 0
       /\ teams[t].numAlive = 0
       /\ teams[t].rank = 2
       /\ TeamsLeft(teams) = 1

-----------------------------------------------------------------------------
(* The end of a day. *)

\* The steps in which printEvent finds every event revealed and calls printDay.
DayRevealed == pc = "idle" /\ lastOp' = "printEvent:printDay"

\* One team, one player or nobody is left, read from the state before the step.
OnePartyLeft ==
  \/ options.teamSize > 0 /\ TeamsLeft(teams) = 1
  \/ NumLiving = 1
  \/ NumLiving = 0

\* C12: once the last event of a day is revealed, the game ends exactly when
\* one team (teams enabled), one player or no player is left; otherwise it
\* stays in progress; day.state returns to 0.
C12_EndsWhenOnePartyLeft ==
  [][DayRevealed
       => /\ inProgress
          /\ (inProgress' = FALSE /\ ended' = TRUE) <=> OnePartyLeft
          /\ ~OnePartyLeft => (inProgress' = TRUE /\ ended' = ended)
          /\ day'.state = 0]_vars

\* A day was revealed to its end and left one team with two living members.
C12_Witness ==
  /\ lastOp = "printEvent:printDay"
  /\ ended /\ ~inProgress
  /\ options.teamSize > 0
  /\ TeamsLeft(teams) = 1
  /\ NumLiving = 2

\* A day was revealed to its end and two players on their own go on.
C12_WitnessGoesOn ==
  /\ lastOp = "printEvent:printDay"
  /\ inProgress /\ ~ended
  /\ NumLiving >= 2
  /\ day.state = 0

\* The game has just ended with exactly one team left.
TeamVictory ==
  /\ lastOp = "printEvent:printDay"
  /\ ended
  /\ options.teamSize > 0
  /\ TeamsLeft(teams) = 1

\* C13: when a game ends with one team left, that team's rank is 1.
C13_WinningTeamRankOne ==
  TeamVictory => \A t \in 1..Len(teams) : teams[t].numAlive > 0 => teams[t].rank = 1

-----------------------------------------------------------------------------
(* The reveal of a day's events. *)

\* The steps that are a call of printEvent.
PrintEventCalled ==
  pc = "idle" /\ lastOp' \in {"printEvent", "printEvent:printDay", "printEvent:thrown"}

\* C14: after nextDay has completed a day with k events, every call of
\* printEvent finds day.state = i + 2 for the number i of calls made before
\* it; for i < k it sends event i of the log and adds 1 to day.state, for
\* i = k it sends no event, runs printDay and sets day.state to 0.  Nothing
\* but printEvent changes the day while the reveal timer runs.
C14_RevealInLogOrder ==
  [][/\ PrintEventCalled =>
          LET k == Len(day.events)
              i == day.state - 2
          IN /\ i \in 0..k
             /\ i < k => /\ lastOp' = "printEvent"
                         /\ RevealIndex(day) = i
                         /\ day' = [day EXCEPT !.state = i + 3]
                         /\ intervals'
             /\ i = k => /\ lastOp' = "printEvent:printDay"
                         /\ day' = [day EXCEPT !.state = 0]
                         /\ ~intervals'
     /\ (intervals /\ ~PrintEventCalled) => day' = day]_vars

\* Every event of a day with at least two events was revealed, and the call
\* after the last one ended the day.
C14_Witness ==
  /\ lastOp = "printEvent:printDay"
  /\ Len(day.events) >= 2
  /\ day.state = 0
  /\ ~intervals

\* C16: within a game day.state moves from each value to the next one, or
\* back to 0 when printDay ends the day or nextDay aborts it for lack of a
\* valid event, and it always lies in 0 .. 2 + (number of events of the day).
\* (startGame creates the day of a new game, with state 0.)
C16_DayStateMovesForward ==
  /\ [](day.state \in 0..(2 + Len(day.events)))
  /\ [][(day'.state # day.state /\ lastOp' # "startGame")
          => \/ day'.state = day.state + 1
             \/ /\ day'.state = 0
                /\ \/ lastOp' = "printEvent:printDay" /\ day.state = 2 + Len(day.events)
                   \/ lastOp' = "nextDay:noValidEvent" /\ day.state = 1]_vars

\* A day went through 0, 1, 2, 3, 4 and back to 0.
C16_Witness ==
  /\ lastOp = "printEvent:printDay"
  /\ day.state = 0
  /\ Len(day.events) = 2
  /\ day.num = 2

-----------------------------------------------------------------------------
(* Options. *)

\* The command names no option, or its value is not of the option's type.
InvalidToggle(option, value) ==
  \/ TypeOfOption(option) = "undefined"
  \/ TypeOfOption(option) = "number" /\ Number(value).nan
  \/ TypeOfOption(option) = "boolean" /\ value \notin {WordTrue, WordFalse}

\* C17: toggleOpt with an unknown option, or with a value that is not of the
\* option's type, reports an error and leaves every option unchanged.
C17_InvalidToggleRejected ==
  [][\A option \in OptionNames \ {""}, value \in OptionValues :
       (toggleOpt(option, value) /\ InvalidToggle(option, value))
         => /\ options' = options
            /\ lastOp' \in {"toggleOpt:invalidOption", "toggleOpt:invalidValue",
                            "toggleOpt:refused"}]_vars

\* C18: no operation on the game of one server changes the options of the
\* game of another server.
C18_OtherOptionsUntouched == [][otherOptions' = otherOptions]_vars

-----------------------------------------------------------------------------
(* Teams. *)

\* The steps that are a command of a host other than the one that runs a day.
HostCommand ==
  /\ pc = "idle"
  /\ lastOp' \in {"createGame", "createGame:refused", "startGame",
                  "startGame:refused", "endGame", "endGame:refused",
                  "resetTeams", "editTeam:refused", "editTeam:swap",
                  "editTeam:reset", "editTeam:rename", "excludeUser",
                  "includeUser", "toggleOpt:list", "toggleOpt:refused",
                  "toggleOpt:invalidOption", "toggleOpt:invalidValue",
                  "toggleOpt:set", "resetOptions"}

\* C19: while a game is in progress no command of a host changes the members,
\* the numAlive or the rank of a team.
C19_TeamsFixedInGame ==
  [][(inProgress /\ HostCommand)
       => /\ Len(teams') = Len(teams)
          /\ \A t \in 1..Len(teams) :
               /\ Range(teams'[t].players) = Range(teams[t].players)
               /\ teams'[t].numAlive = teams[t].numAlive
               /\ teams'[t].rank = teams[t].rank]_vars

\* The number of places on teams that hold the player id.
PlacesOf(ts, id) ==
  Cardinality({<<t, j>> \in (1..Len(ts)) \X (1..MaxTeamSize) :
                 j <= Len(ts[t].players) /\ ts[t].players[j] = id})

IncludedIds == {includedUsers[i].id : i \in 1..Len(includedUsers)}

\* C20: with teamSize > 0, after any sequence of createGame, includeUser,
\* excludeUser, team resets and swaps, every place on a team holds an included
\* player and every included player holds exactly one place (so no player is
\* twice on a team or on two teams).
C20_TeamsPartitionIncluded ==
  options.teamSize > 0
    => /\ \A t \in 1..Len(teams) : Range(teams[t].players) \subseteq IncludedIds
       /\ \A id \in IncludedIds : PlacesOf(teams, id) = 1
       /\ \A t \in 1..Len(teams) : Len(teams[t].players) <= MaxTeamSize

\* A member was excluded after two players had swapped teams: the teams of
\* the three players left are not those createGame formed.
C20_Witness ==
  /\ options.teamSize > 0
  /\ lastOp = "excludeUser"
  /\ Len(includedUsers) = 3
  /\ ~inProgress
  /\ \E t \in 1..Len(teams) : Range(teams[t].players) = {2, 4}

-----------------------------------------------------------------------------
(* printEvent after the end of the reveal. *)

\* The steps that are a call of printEvent right after the call that ended
\* the reveal of a day, or after another such call.
PrintEventCalledAgain ==
  /\ PrintEventCalled
  /\ lastOp \in {"printEvent:printDay", "printEvent:thrown"}
  /\ day.state = 0

\* C15: a call of printEvent after every event of the day has been revealed
\* ends with the same "no more events" result each time, not with an
\* exception, and changes nothing of the game.
C15_RevealedDayStaysRevealed ==
  [][PrintEventCalledAgain
       => /\ lastOp' # "printEvent:thrown"
          /\ UNCHANGED gameVars]_vars

-----------------------------------------------------------------------------
(* The day that finds no valid event. *)

\* The team counts match the players: every team's numAlive is the number of
\* its members whose player record is living.
TeamsMatchLiving(users, ts) ==
  \A t \in 1..Len(ts) :
    ts[t].numAlive =
      Cardinality({j \in 1..Len(ts[t].players) :
                     \E i \in Living(users) : users[i].id = ts[t].players[j]})

\* The step in which the event loop gives up (loop > 100).
NoValidEvent == pc = "loop" /\ lastOp' = "nextDay:noValidEvent"

\* C21: when the event loop gives up, nextDay returns with day.state 0 and
\* leaves the players, the teams and numAlive as the events applied earlier
\* that day made them; numAlive and every team's numAlive then match the
\* living players, and the game is in progress with a day that nextDay does
\* not refuse.
C21_AbortKeepsModel ==
  /\ [](lastOp = "nextDay:noValidEvent" =>
          /\ pc = "idle"
          /\ day.state = 0
          /\ inProgress /\ ~DayAlreadyStarted
          /\ numAlive = NumLiving
          /\ TeamsMatchLiving(includedUsers, teams))
  /\ [][NoValidEvent => UNCHANGED <<includedUsers, teams, numAlive>>]_vars

\* The event loop gave up on the first day after an event of that day had
\* killed a player of a team.
C21_Witness ==
  /\ lastOp = "nextDay:noValidEvent"
  /\ day.num = 1
  /\ Len(day.events) > 0
  /\ numAlive < Len(includedUsers)
  /\ \E t \in 1..Len(teams) : teams[t].numAlive < Len(teams[t].players)

-----------------------------------------------------------------------------
(* The resurrection. *)

\* The step of nextDay in which the resurrection draw succeeded and found a
\* dead player: the event log of the new day starts with the resurrection.
ResurrectionDone ==
  /\ pc = "idle"
  /\ day.state = 0
  /\ day'.state = 1
  /\ day'.events # <<>>
  /\ day'.events[1].message = "resurrected"

\* The players whose record was dead before the step and is living after it.
RevivedInStep ==
  {i \in 1..Len(includedUsers) : ~includedUsers[i].living /\ includedUsers'[i].living}

\* C22: a nextDay whose resurrection draw succeeds while a player is dead
\* revives exactly one dead player: that player is living with rank 1, every
\* other player keeps the living flag, every player still dead who ranked
\* better than the revived player did moves down one rank, numAlive grows by
\* one and so does the numAlive of the team that holds the revived player.
C22_ResurrectionRevivesOne ==
  [][ResurrectionDone =>
       /\ Len(includedUsers') = Len(includedUsers)
       /\ Cardinality(RevivedInStep) = 1
       /\ numAlive' = numAlive + 1
       /\ \A r \in RevivedInStep :
            /\ includedUsers'[r].id = includedUsers[r].id
            /\ includedUsers'[r].rank = 1
            /\ \A i \in 1..Len(includedUsers) \ {r} :
                 /\ includedUsers'[i].living = includedUsers[i].living
                 /\ (~includedUsers[i].living /\ includedUsers[i].rank < includedUsers[r].rank)
                      => includedUsers'[i].rank = includedUsers[i].rank + 1
            /\ LET t == TeamIndexOf(teams, includedUsers[r].id)
               IN t > 0 => teams'[t].numAlive = teams[t].numAlive + 1]_vars

\* A player of a team of two has just been revived while two other players are
\* still dead, one of them ranked last but one: that one ranked better than the
\* revived player did, and has moved down.
C22_Witness ==
  /\ pc = "loop"
  /\ day.events # <<>>
  /\ day.events[1].message = "resurrected"
  /\ Cardinality({i \in 1..Len(includedUsers) : ~includedUsers[i].living}) >= 2
  /\ \E i \in 1..Len(includedUsers) :
       /\ includedUsers[i].state = "zombie"
       /\ includedUsers[i].rank = 1
       /\ \E t \in 1..Len(teams) :
            includedUsers[i].id \in Range(teams[t].players) /\ teams[t].numAlive >= 1

-----------------------------------------------------------------------------
(* The load of the saved games when the module is loaded. *)

\* What fs.readFile finds in hg.json: no file (err), text that is not JSON,
\* the JSON text null, the JSON of an object without data of this server, or
\* the JSON of an object that holds a created game of this server.
StoreContents == {"absent", "corrupt", "null", "others", "saved"}

\* The module has been loaded and fs.readFile has not called back yet: games
\* is {}.
InitLoad(setups) ==
  \E s \in setups :
    /\ options = s.options
    /\ otherOptions = s.options
    /\ defaultBloodbathEvents = s.file.bloodbath
    /\ defaultPlayerEvents = s.file.player
    /\ defaultArenaEvents = s.file.arena
    /\ members = [i \in 1..s.n |-> i]
    /\ excludedUsers = <<>>
    /\ includedUsers = <<>>
    /\ teams = <<>>
    /\ numAlive = 0
    /\ inProgress = FALSE
    /\ ended = FALSE
    /\ day = [num |-> 0, state |-> 0, events |-> <<>>]
    /\ hasCurrentGame = FALSE
    /\ hasGame = FALSE
    /\ ownOptions = FALSE
    /\ intervals = FALSE
    /\ timers = 0
    /\ autoPlay = FALSE
    /\ dayTimers = 0
    /\ pc = "load"
    /\ userPool = <<>>
    /\ userEventPool = <<>>
    /\ loop = 0
    /\ eventTry = NoEvent
    /\ numVictim = 0
    /\ numAttacker = 0
    /\ lastOp = "require"

\* The callback of fs.readFile(saveFile, ...).  JSON.parse throws a
\* SyntaxError on text that is not JSON; nothing catches it in the callback,
\* and the process ends.
readFile ==
  /\ pc = "load"
  /\ \E content \in StoreContents :
       /\ lastOp' = "readFile:" \o content
       /\ IF content = "corrupt"
          THEN /\ pc' = "crashed"
               /\ UNCHANGED <<hasGame, ownOptions, hasCurrentGame, includedUsers,
                              teams, numAlive>>
          ELSE IF content = "saved"
          THEN LET users == getAllPlayers(members, <<>>)
               IN /\ pc' = "idle"
                  /\ hasGame' = TRUE
                  /\ ownOptions' = TRUE
                  /\ hasCurrentGame' = TRUE
                  /\ includedUsers' = users
                  /\ numAlive' = Len(users)
                  /\ teams' = formTeams(options.teamSize, users, <<>>)
          ELSE \* if (err) return;  or  games = JSON.parse(data); if (!games) games = {};
               /\ pc' = "idle"
               /\ UNCHANGED <<hasGame, ownOptions, hasCurrentGame, includedUsers,
                              teams, numAlive>>
  /\ UNCHANGED <<options, otherOptions, defaultBloodbathEvents, defaultPlayerEvents,
                 defaultArenaEvents, members, excludedUsers, inProgress, ended, day,
                 intervals, timers, autoVars, userPool, userEventPool, loop, eventTry,
                 numVictim, numAttacker>>

LoadSetups ==
  {Setup(2, Options(0, TRUE, TRUE, FALSE, FALSE), MassacreFile),
   Setup(MaxPlayers, Options(2, TRUE, TRUE, FALSE, FALSE), KillFile)}

NextLoad ==
  \/ readFile
  \/ createGame
  \/ startGame
  \/ nextDay(MaxDays)
  \/ SelectEvent
  \/ DrawCounts
  \/ ApplyEvent
  \/ FinishDay
  \/ printEvent
  \/ endGame

SpecLoad == InitLoad(LoadSetups) /\ [][NextLoad]_vars

\* C23: the load of the saved games never ends the process, and after a load
\* that found no file or text that is not JSON the module runs with no data
\* of any server.
C23_LoadStartsEmpty ==
  /\ pc # "crashed"
  /\ lastOp \in {"readFile:absent", "readFile:corrupt"} => (pc = "idle" /\ ~hasGame)

-----------------------------------------------------------------------------
(* The templates of a day. *)

\* The arena events that the event log of the day announces.
ArenaOfDay ==
  {a \in 1..Len(defaultArenaEvents) :
     \E i \in 1..Len(day.events) : day.events[i].message = defaultArenaEvents[a].message}

\* The templates the claim gives the day: the bloodbath templates on the first
\* day, the outcomes of the announced arena event on an arena day, the player
\* templates on any other day.
TemplatesOfDay ==
  IF day.num = 1 THEN defaultBloodbathEvents
  ELSE IF ArenaOfDay # {}
  THEN defaultArenaEvents[CHOOSE a \in ArenaOfDay : TRUE].outcomes
  ELSE defaultPlayerEvents

\* The records of the log that are no event of a template.
OtherRecords ==
  {"resurrected", "recovered", "bled"}
    \cup {defaultArenaEvents[a].message : a \in 1..Len(defaultArenaEvents)}

\* C24: the events of day 1 are drawn from the bloodbath templates only; those
\* of a later day from the outcomes of the one arena event announced, when one
\* is, and from the player templates otherwise; day 1 announces no arena
\* event.
C24_TemplatesOfTheDay ==
  /\ day.num = 1 => ArenaOfDay = {}
  /\ Cardinality(ArenaOfDay) <= 1
  /\ pc \in {"loop", "draw", "apply"} => userEventPool = TemplatesOfDay
  /\ pc \in {"draw", "apply"} => eventTry \in Range(TemplatesOfDay)
  /\ \A i \in 1..Len(day.events) :
       day.events[i].message \in
         OtherRecords \cup {TemplatesOfDay[k].message : k \in 1..Len(TemplatesOfDay)}

\* The second day of a game is an arena day, and an outcome of the arena event
\* has killed a player; the first day had drawn from the bloodbath templates.
C24_Witness ==
  /\ day.num = 2
  /\ ArenaOfDay # {}
  /\ \E i \in 1..Len(day.events) : day.events[i].message = "dies"
  /\ pc = "idle"
  /\ day.state >= 2

-----------------------------------------------------------------------------
(* The number of the day. *)

\* The step of nextDay that begins to simulate a day.
BeginsSimulating == pc = "idle" /\ day.state = 0 /\ day'.state = 1

-----------------------------------------------------------------------------
(* The deaths of the day simulation. *)

\* The players a step of the day simulation kills.
DiedInStep ==
  {i \in 1..Len(includedUsers) : includedUsers[i].living /\ ~includedUsers'[i].living}

\* A step of nextDay after the head of the event loop was reached: the effects
\* of an accepted event, or the pass over the bleeding players.
SimulationStep == pc \in {"apply", "loop"}

\* C26: every death of the day simulation, by an event or by bleeding, leaves
\* the player not living, in state "dead" and not bleeding; each death takes 1
\* from numAlive and gives the player the value numAlive had before, so the
\* players killed in one step hold the ranks from the new numAlive + 1 up to
\* the old numAlive, each once, and a single death gives the rank numAlive.
C26_DeathsRankAndCount ==
  [][SimulationStep =>
       /\ Len(includedUsers') = Len(includedUsers)
       /\ numAlive' = numAlive - Cardinality(DiedInStep)
       /\ \A i \in DiedInStep :
            /\ includedUsers'[i].state = "dead"
            /\ ~includedUsers'[i].bleeding
            /\ includedUsers'[i].rank \in (numAlive' + 1)..numAlive
            /\ \A j \in DiedInStep \ {i} :
                 includedUsers'[j].rank # includedUsers'[i].rank
       /\ \A i \in 1..Len(includedUsers) \ DiedInStep :
            includedUsers'[i].living = includedUsers[i].living]_vars

\* The first event of a game of three has killed two players at once: they
\* hold the ranks 3 and 2, and one player is left.
C26_Witness ==
  /\ pc = "loop"
  /\ day.num = 1
  /\ Len(day.events) = 1
  /\ Len(day.events[1].victims) + Len(day.events[1].attackers) = 2
  /\ numAlive = 1
  /\ Len(includedUsers) = 3
  /\ \E i, j \in 1..Len(includedUsers) :
       /\ includedUsers[i].state = "dead" /\ includedUsers[i].rank = 3
       /\ includedUsers[j].state = "dead" /\ includedUsers[j].rank = 2

\* A player has bled to death at the end of the second day as the first death
\* of a game of three: two players are left and the dead player has the rank 3.
C26_WitnessBled ==
  /\ lastOp = "nextDay:done"
  /\ day.num = 2
  /\ day.events[Len(day.events)].message = "bled"
  /\ Len(includedUsers) = 3
  /\ numAlive = 2
  /\ \E i \in 1..Len(includedUsers) :
       includedUsers[i].state = "dead" /\ includedUsers[i].rank = 3

-----------------------------------------------------------------------------
(* Wounds and bleeding. *)

\* Players are wounded or hide on the first day, and find medicine or hide on
\* the days that follow.
HealFile == EventFile(<<Wound, Hide>>, <<Heal, Hide>>, <<>>)

\* Two players, each a team of one.
WoundSetups == {Setup(2, Options(1, FALSE, TRUE, FALSE, FALSE), HealFile)}

NextWounds ==
  \/ startGame
  \/ nextDay(MaxDays)
  \/ SelectEvent
  \/ ApplyEvent
  \/ FinishDay
  \/ printEvent

SpecWounds == InitWith(WoundSetups) /\ [][NextWounds]_vars

\* The step that applies the effects of an accepted event and records it.
EventApplied == pc = "apply" /\ Len(day'.events) = Len(day.events) + 1

\* The outcome the event applied in this step has for the player `id`;
\* "absent" for a player who takes no part in it.
OutcomeInStep(id) ==
  LET e == day'.events[Len(day'.events)]
  IN IF id \in Range(e.victims) THEN eventTry.victim.outcome
     ELSE IF id \in Range(e.attackers) THEN eventTry.attacker.outcome
     ELSE "absent"

\* C27: an event sets the bleeding flag of a player only by the outcome
\* "wounded" on a player whose state is "wounded" already; the outcomes
\* "thrives" and "nothing" never set it, and "thrives" leaves the player in
\* state "normal" and not bleeding unless the player bled before.
C27_BleedingOnlyWhenWoundedAgain ==
  [][EventApplied =>
       \A i \in 1..Len(includedUsers) :
         /\ (~includedUsers[i].bleeding /\ includedUsers'[i].bleeding) =>
              /\ OutcomeInStep(includedUsers[i].id) = "wounded"
              /\ includedUsers[i].state = "wounded"
         /\ OutcomeInStep(includedUsers[i].id) = "thrives" =>
              includedUsers'[i].state = "normal"]_vars

-----------------------------------------------------------------------------
(* The bleeding players at the end of the day. *)

\* The step in which nextDay passes over the bleeding players and completes.
BleedPassDone == pc = "loop" /\ lastOp' = "nextDay:done"

\* C28: when nextDay has completed, and while the day is revealed, no player
\* is bleeding; the pass over the bleeding players leaves each player who was
\* living and bleeding either dead (not living, state "dead", ranked below the
\* players left) or recovered (living, not bleeding, state "normal"), and
\* changes no other player.
C28_NobodyBleedsAfterTheDay ==
  /\ []((pc = "idle" /\ day.state >= 2) =>
          \A i \in 1..Len(includedUsers) : ~includedUsers[i].bleeding)
  /\ [][BleedPassDone =>
          /\ Len(includedUsers') = Len(includedUsers)
          /\ \A i \in 1..Len(includedUsers) :
               IF includedUsers[i].bleeding /\ includedUsers[i].living
               THEN \/ /\ ~includedUsers'[i].living
                       /\ includedUsers'[i].state = "dead"
                       /\ ~includedUsers'[i].bleeding
                       /\ includedUsers'[i].rank \in (numAlive' + 1)..numAlive
                    \/ includedUsers'[i] =
                         [includedUsers[i] EXCEPT !.bleeding = FALSE, !.state = "normal"]
               ELSE includedUsers'[i] = includedUsers[i]]_vars

\* A day has completed at whose end one bleeding player died and another one
\* recovered.
C28_Witness ==
  /\ pc = "idle"
  /\ lastOp = "nextDay:done"
  /\ day.state = 2
  /\ \E i, j \in 1..Len(day.events) :
       day.events[i].message = "recovered" /\ day.events[j].message = "bled"

-----------------------------------------------------------------------------
(* The participants of the events of a day. *)

\* The participants of the template events among the first n records of the
\* log, victims before attackers, in the order of the log.
RECURSIVE TookPart(_, _)
TookPart(events, n) ==
  IF n = 0 THEN <<>>
  ELSE TookPart(events, n - 1)
         \o (IF events[n].message \in OtherRecords THEN <<>>
             ELSE events[n].victims \o events[n].attackers)

NoRepeats(s) == \A i, j \in 1..Len(s) : i # j => s[i] # s[j]

\* The event loop of nextDay runs.
InEventLoop == pc \in {"loop", "draw", "apply"}

\* C29: the event loop starts with the living players in its pool; each
\* accepted event moves its participants out of the pool, so that at every
\* point of the loop each of those players is either in the pool or has taken
\* part in exactly one event, and no player appears twice in an event; the
\* day completes only when the pool is empty.
C29_EachLivingPlayerOnce ==
  /\ [](InEventLoop =>
          NoRepeats(userPool \o TookPart(day.events, Len(day.events))))
  /\ [][(BeginsSimulating /\ pc' = "loop") =>
          /\ TookPart(day'.events, Len(day'.events)) = <<>>
          /\ Range(userPool') =
               {includedUsers'[i].id : i \in Living(includedUsers')}]_vars
  /\ [][(InEventLoop /\ pc' \in {"loop", "draw", "apply"}) =>
          Range(userPool') \cup Range(TookPart(day'.events, Len(day'.events)))
            = Range(userPool) \cup Range(TookPart(day.events, Len(day.events)))]_vars
  /\ [][BleedPassDone => userPool = <<>>]_vars

\* A day of three players has completed with two events: one with two
\* participants and one with the third player.
C29_Witness ==
  /\ lastOp = "nextDay:done"
  /\ Len(includedUsers) = 3
  /\ Len(TookPart(day.events, Len(day.events))) = 3
  /\ \E i, j \in 1..Len(day.events) :
       /\ i # j
       /\ Len(day.events[i].victims) + Len(day.events[i].attackers) = 2
       /\ day.events[i].message \notin OtherRecords
       /\ Len(day.events[j].victims) + Len(day.events[j].attackers) = 1
       /\ day.events[j].message \notin OtherRecords

-----------------------------------------------------------------------------
(* The sides of an event when team mates collaborate. *)

\* The members of team t.
MembersOf(t) == Range(teams[t].players)

\* The record of the event applied in this step has the team t as its anchor:
\* one side comes from t only and the other side from outside of t.
Anchors(t, e) ==
  \/ /\ Range(e.attackers) \subseteq MembersOf(t)
     /\ Range(e.victims) \cap MembersOf(t) = {}
  \/ /\ Range(e.victims) \subseteq MembersOf(t)
     /\ Range(e.attackers) \cap MembersOf(t) = {}

\* C30: with teammatesCollaborate and teamSize > 0 every accepted event is
\* applied with both sides filled to their counts, one side from a single
\* anchor team only and the other side from players not on that team, so that
\* no attacker is on a team with a victim.
C30_SidesSplitByTeam ==
  [][(pc = "apply" /\ Collaborate(options)) =>
       /\ EventApplied
       /\ LET e == day'.events[Len(day'.events)]
          IN /\ Len(e.victims) = numVictim
             /\ Len(e.attackers) = numAttacker
             /\ \E t \in 1..Len(teams) : Anchors(t, e)
             /\ \A a \in Range(e.attackers), v \in Range(e.victims) :
                  ~\E t \in 1..Len(teams) : a \in MembersOf(t) /\ v \in MembersOf(t)]_vars

\* An event with an attacker and a victim has been applied in a game with
\* teams of two whose players collaborate.
C30_Witness ==
  /\ pc = "loop"
  /\ Collaborate(options)
  /\ day.events # <<>>
  /\ LET e == day.events[Len(day.events)]
     IN /\ e.message \notin OtherRecords
        /\ Len(e.victims) >= 1
        /\ Len(e.attackers) >= 1
        /\ \E t \in 1..Len(teams) : Len(teams[t].players) = 2 /\ Anchors(t, e)

-----------------------------------------------------------------------------
(* The rejections of the team collaboration mode. *)

\* The teams with a living member in the pool.
TeamsInPool(pool, ts, users) == {i \in 1..Len(ts) : NumPool(ts[i], pool, users) > 0}

\* The template kills somebody.
Kills(t) == t.attacker.outcome = "dies" \/ t.victim.outcome = "dies"

\* Some team fits one side of the draw with its members in the pool, and the
\* rest of the pool fits the other side.
SomeTeamFits(nA, nV, pool, ts, users) ==
  \E T \in 1..Len(ts) :
    LET eligible == NumPool(ts[T], pool, users)
    IN \/ (nA <= eligible /\ nV <= Len(pool) - eligible)
       \/ (nV <= eligible /\ nA <= Len(pool) - eligible)

\* A pass of the event loop draws the template at eventIndex, whose counts are
\* fixed, and nothing but the split of the pool by teams can reject the draw.
OnlyTheSplitDecides(eventIndex) ==
  /\ pc = "loop"
  /\ userPool # <<>>
  /\ Collaborate(options)
  /\ eventIndex < Len(userEventPool)
  /\ LET t == userEventPool[eventIndex + 1]
     IN /\ t # NoEvent
        /\ t.attacker.count >= 0 /\ t.victim.count >= 0
        /\ ~TooManyAttempts(NextLoop(loop))
        /\ ~NotEnoughPlayers(t, userPool)
        /\ ~(Kills(t) /\ Cardinality(TeamsInPool(userPool, teams, includedUsers)) < 2)
        /\ options.allowNoVictors
             \/ ~AllDeadReject(t, t.attacker.count, t.victim.count, numAlive)

\* C31: with team collaboration, a draw that nothing else rejects is accepted
\* exactly if some team fits one side with its members in the pool while the
\* rest of the pool fits the other side.
C31_RejectedOnlyIfNoTeamFits ==
  [][\A eventIndex \in EventDraws :
       (OnlyTheSplitDecides(eventIndex) /\ EventAttempt(eventIndex)) =>
         (pc' = "apply" <=>
            SomeTeamFits(userEventPool[eventIndex + 1].attacker.count,
                         userEventPool[eventIndex + 1].victim.count,
                         userPool, teams, includedUsers))]_vars

\* C32: with team collaboration, an event that kills somebody is applied only
\* while at least two teams have living members in the remaining pool.
C32_KillsNeedTwoTeams ==
  (pc = "apply" /\ Collaborate(options) /\ Kills(eventTry)) =>
    Cardinality(TeamsInPool(userPool, teams, includedUsers)) >= 2

\* A killing event is accepted with members of exactly two teams in the pool.
C32_Witness ==
  /\ pc = "apply"
  /\ Collaborate(options)
  /\ Kills(eventTry)
  /\ Cardinality(TeamsInPool(userPool, teams, includedUsers)) = 2

-----------------------------------------------------------------------------
(* The order of the event log of a day. *)

ArenaMessages == {defaultArenaEvents[a].message : a \in 1..Len(defaultArenaEvents)}

\* The place of a record in the log of a day: the resurrection, the arena
\* announcement, the events, the recovered players, the players who bled to
\* death.
RecordPlace(e) ==
  IF e.message = "resurrected" THEN 0
  ELSE IF e.message \in ArenaMessages THEN 1
  ELSE IF e.message = "recovered" THEN 3
  ELSE IF e.message = "bled" THEN 4
  ELSE 2

\* The records are in the order of their places, and only events repeat.
LogInOrder(events) ==
  \A i, j \in 1..Len(events) :
    i < j => /\ RecordPlace(events[i]) <= RecordPlace(events[j])
             /\ RecordPlace(events[i]) = RecordPlace(events[j]) =>
                  RecordPlace(events[i]) = 2

\* The ids of the players at the indices in s, in the order of the list.
IdsAt(users, s) ==
  LET sel == SelectSeq([i \in 1..Len(users) |-> i], LAMBDA i : i \in s)
  IN [k \in 1..Len(sel) |-> users[sel[k]].id]

\* The record of a message about the players in ids, none when ids is empty.
RecordOf(message, ids) ==
  IF ids = <<>> THEN <<>>
  ELSE <<[message |-> message, victims |-> ids, attackers |-> <<>>]>>

\* The bleeding players who are living before the step and after it.
RecoveredInStep ==
  {i \in 1..Len(includedUsers) :
     includedUsers[i].bleeding /\ includedUsers[i].living /\ includedUsers'[i].living}

\* The bleeding players who die in the step.
BledInStep ==
  {i \in 1..Len(includedUsers) :
     includedUsers[i].bleeding /\ includedUsers[i].living /\ ~includedUsers'[i].living}

\* The arena events whose outcomes the new day draws from.
ArenaDrawn ==
  {a \in 1..Len(defaultArenaEvents) :
     \E i \in 1..Len(day'.events) : day'.events[i].message = defaultArenaEvents[a].message}

\* C33: the log of a day holds, in this order, the record of the resurrection
\* if a player was revived, the arena announcement if the day is an arena day,
\* one record for each accepted event in the order of acceptance, one record
\* of the players who recovered from bleeding if there are any, then one
\* record of the players who bled to death if there are any; each record
\* lists exactly the players of its event.
C33_LogOfTheDay ==
  /\ [](LogInOrder(day.events))
  /\ [][/\ BeginsSimulating =>
             /\ day'.events =
                  RecordOf("resurrected", IdsAt(includedUsers, RevivedInStep))
                    \o [k \in 1..Cardinality(ArenaDrawn) |->
                          [message |-> defaultArenaEvents[CHOOSE a \in ArenaDrawn : TRUE].message,
                           victims |-> <<>>, attackers |-> <<>>]]
             /\ Cardinality(ArenaDrawn) <= 1
             /\ (pc' = "loop" /\ ArenaDrawn # {}) =>
                  userEventPool' = defaultArenaEvents[CHOOSE a \in ArenaDrawn : TRUE].outcomes
             /\ (pc' = "loop" /\ ArenaDrawn = {}) =>
                  userEventPool' \in {defaultBloodbathEvents, defaultPlayerEvents}
        /\ (pc \in {"loop", "draw"} /\ pc' \in {"loop", "draw", "apply"}) =>
             day'.events = day.events
        /\ (pc = "apply" /\ pc' # "idle") =>
             /\ Len(day'.events) = Len(day.events) + 1
             /\ SubSeq(day'.events, 1, Len(day.events)) = day.events
             /\ LET e == day'.events[Len(day'.events)]
                IN /\ e.message = eventTry.message
                   /\ Len(e.victims) = numVictim
                   /\ Len(e.attackers) = numAttacker
                   /\ NoRepeats(e.victims \o e.attackers)
                   /\ Range(e.victims) \cup Range(e.attackers) =
                        Range(userPool) \ Range(userPool')
        /\ BleedPassDone =>
             day'.events =
               day.events
                 \o RecordOf("recovered", IdsAt(includedUsers, RecoveredInStep))
                 \o RecordOf("bled", IdsAt(includedUsers, BledInStep))]_vars

\* A day is complete whose log starts with a resurrection and ends with the
\* players who recovered and the players who bled to death, with events in
\* between.
C33_Witness ==
  /\ pc = "idle"
  /\ day.state = 2
  /\ Len(day.events) >= 4
  /\ day.events[1].message = "resurrected"
  /\ RecordPlace(day.events[2]) = 2
  /\ day.events[Len(day.events) - 1].message = "recovered"
  /\ day.events[Len(day.events)].message = "bled"

-----------------------------------------------------------------------------
(* The included players of a game in progress. *)

RosterSetups ==
  {Setup(n, Options(0, TRUE, TRUE, FALSE, FALSE), KillFile) : n \in 2..MaxPlayers}
    \cup {Setup(MaxPlayers, Options(2, TRUE, TRUE, FALSE, FALSE), MassacreFile)}

NextRoster ==
  \/ createGame
  \/ startGame
  \/ nextDay(MaxDays)
  \/ SelectEvent
  \/ DrawCounts
  \/ ApplyEvent
  \/ FinishDay
  \/ printEvent
  \/ endGame
  \/ excludeUser
  \/ includeUser

SpecRoster == InitWith(RosterSetups) /\ [][NextRoster]_vars

\* C34: while a game is in progress no step changes who the included players
\* are: includeUser, excludeUser and createGame leave them as they are, and a
\* player who dies stays among them, marked dead.
C34_PlayersKeptInProgress ==
  [][(hasCurrentGame /\ inProgress) =>
       /\ Len(includedUsers') = Len(includedUsers)
       /\ \A i \in 1..Len(includedUsers) : includedUsers'[i].id \in IncludedIds
       /\ SimulationStep =>
            \A i \in DiedInStep :
              /\ includedUsers'[i].id = includedUsers[i].id
              /\ includedUsers'[i].state = "dead"]_vars

\* In a game in progress a player has died, is excluded by the host and is
\* still among the included players.
C34_Witness ==
  /\ inProgress
  /\ lastOp = "excludeUser"
  /\ \E i \in 1..Len(includedUsers) :
       /\ includedUsers[i].id \in Range(excludedUsers)
       /\ ~includedUsers[i].living

-----------------------------------------------------------------------------
(* The order of the bleed pass. *)

\* The players the bleed pass goes over.
Bleeding ==
  {i \in 1..Len(includedUsers) : includedUsers[i].bleeding /\ includedUsers[i].living}

\* The bleeding players before i who die in the step.
BledBefore(i) == {j \in BledInStep : j < i}

\* C35: the bleed pass is sequential.  With allowNoVictors off, a bleeding
\* player dies exactly if the draw says so and numAlive, less the bleeding
\* players who died earlier in the pass, is above 1; when every living player
\* bleeds and every draw says die, only the last bleeding player of the list
\* survives.
C35_BleedPassIsSequential ==
  /\ [][(BleedPassDone /\ ~options.allowNoVictors) =>
          /\ numAlive' = numAlive - Cardinality(BledInStep)
          /\ \E dies \in SUBSET Bleeding :
               \A i \in Bleeding :
                 i \in BledInStep <=>
                   (i \in dies /\ numAlive - Cardinality(BledBefore(i)) > 1)]_vars
  /\ []((pc = "loop" /\ userPool = <<>> /\ ~options.allowNoVictors
           /\ Bleeding # {} /\ Cardinality(Bleeding) = numAlive) =>
          LET g == BleedPass([users |-> includedUsers, teams |-> teams,
                              numAlive |-> numAlive, usersBleeding |-> <<>>,
                              usersRecovered |-> <<>>, thrown |-> FALSE],
                             Bleeding, FALSE, 1)
              last == CHOOSE i \in Bleeding : \A j \in Bleeding : j <= i
          IN ~g.thrown => /\ g.numAlive = 1
                          /\ g.usersRecovered = <<includedUsers[last].id>>
                          /\ \A i \in Bleeding : g.users[i].living <=> i = last)

\* With allowNoVictors off every living player bled, and the pass has left
\* the last of them alive after at least two deaths.
C35_Witness ==
  /\ pc = "idle"
  /\ lastOp = "nextDay:done"
  /\ ~options.allowNoVictors
  /\ numAlive = 1
  /\ Len(day.events) >= 2
  /\ day.events[Len(day.events)].message = "bled"
  /\ Len(day.events[Len(day.events)].victims) >= 2
  /\ day.events[Len(day.events) - 1].message = "recovered"
  /\ \E i \in 1..Len(includedUsers) :
       /\ includedUsers[i].living
       /\ day.events[Len(day.events) - 1].victims = <<includedUsers[i].id>>
       /\ \A j \in 1..Len(includedUsers) :
            includedUsers[j].id \in Range(day.events[Len(day.events)].victims) => j < i

-----------------------------------------------------------------------------
(* The reveal timer and the game it belongs to. *)

\* C36: at most one reveal timer runs at any time, a reveal timer runs only
\* while there is a game whose day.state is 2 or more, and printEvent is never
\* called by a timer after the game was ended, reset or deleted.
C36_OneTimerOfARevealedDay ==
  /\ timers <= 1
  /\ timers > 0 => (hasGame /\ hasCurrentGame /\ ~ended /\ day.state >= 2)
  /\ lastOp # "printEvent:noGame"

-----------------------------------------------------------------------------
(* Autoplay: the commands "autoplay" and "pause", and the timer printDay     *)
(* sets for the next day.  pc = "nextDay" and pc = "startGame": the handler  *)
(* that runs calls nextDay, or startGame, next.                              *)

pauseAutoplay ==
  /\ pc = "idle"
  /\ autoPlay' = (IF hasGame THEN FALSE ELSE autoPlay)
  /\ lastOp' = (IF ~hasGame THEN "pauseAutoplay:noData"
                ELSE IF autoPlay THEN "pauseAutoplay"
                ELSE "pauseAutoplay:notAutoplaying")
  /\ UNCHANGED <<configVars, gameVars, intervals, timers, dayTimers, localVars>>

startAutoplay ==
  /\ pc = "idle"
  /\ UNCHANGED <<configVars, gameVars, intervals, timers, dayTimers, userPool,
                 userEventPool, loop, eventTry, numVictim, numAttacker>>
  /\ IF ~hasGame
     THEN /\ lastOp' = "startAutoplay:noData"
          /\ UNCHANGED <<autoPlay, pc>>
     ELSE IF autoPlay
     THEN /\ lastOp' = "startAutoplay:already"
          /\ UNCHANGED <<autoPlay, pc>>
     ELSE /\ autoPlay' = TRUE
          /\ IF ~hasCurrentGame
             THEN \* TypeError: games[id].currentGame is undefined
                  /\ lastOp' = "startAutoplay:noGame"
                  /\ UNCHANGED pc
             ELSE /\ lastOp' = "startAutoplay"
                  /\ pc' = (IF inProgress /\ day.state = 0 THEN "nextDay"
                          ELSE IF ~inProgress THEN "startGame"
                          ELSE "idle")

\* The timer that printDay has set calls nextDay(msg, id).
autoplayTimeout ==
  /\ pc = "idle"
  /\ dayTimers > 0
  /\ dayTimers' = dayTimers - 1
  /\ pc' = "nextDay"
  /\ lastOp' = "setTimeout"
  /\ UNCHANGED <<configVars, gameVars, intervals, timers, autoPlay, userPool,
                 userEventPool, loop, eventTry, numVictim, numAttacker>>

AutoplaySetups == {Setup(MaxPlayers, Options(0, TRUE, TRUE, FALSE, FALSE), MassacreFile)}

NextAutoplay ==
  \/ startGame
  \/ nextDay(MaxDays)
  \/ SelectEvent
  \/ DrawCounts
  \/ ApplyEvent
  \/ FinishDay
  \/ printEvent
  \/ endGame
  \/ pauseAutoplay
  \/ startAutoplay
  \/ autoplayTimeout

SpecAutoplay == InitWith(AutoplaySetups) /\ [][NextAutoplay]_vars

\* The timer of printDay has called nextDay, and nextDay begins to simulate a
\* day.
TimerStartsDay ==
  /\ pc = "nextDay"
  /\ lastOp = "setTimeout"
  /\ day.state = 0
  /\ day'.state = 1

\* C37: a day that no command of the host starts is started only while
\* autoPlay is set: once autoplay is paused or the game is ended, no timer
\* set before starts another day.
C37_TimerStartsDayOnlyWhenAutoplaying ==
  [][TimerStartsDay => autoPlay]_vars

-----------------------------------------------------------------------------
(* The game that has ended. *)

\* Every player record of the state is a record of the next state.
PlayersKept ==
  \A i \in 1..Len(includedUsers) :
    \E j \in 1..Len(includedUsers') : includedUsers'[j] = includedUsers[i]

\* C38: a game is never in progress and ended at once; a game that has ended,
\* by a victory, with no victor or by endGame, begins no day, and none of its
\* player records changes, until startGame or createGame makes a new game.
C38_EndedGameIsOver ==
  /\ [](~(inProgress /\ ended))
  /\ [][ended =>
          /\ pc' \notin {"loop", "draw", "apply"}
          /\ ended' => (PlayersKept /\ numAlive' = numAlive
                         /\ day'.num = day.num /\ day'.events = day.events)]_vars

\* A game has ended with no victor, and a nextDay after that was refused.
C38_Witness ==
  /\ ended
  /\ numAlive = 0
  /\ lastOp = "nextDay:notStarted"

-----------------------------------------------------------------------------
(* The health of a player. *)

\* C39: the state of a player is "dead" exactly when the player is not
\* living, and a player who is bleeding is living.
C39_DeadExactlyWhenNotLiving ==
  \A i \in 1..Len(includedUsers) :
    /\ includedUsers[i].state = "dead" <=> ~includedUsers[i].living
    /\ includedUsers[i].bleeding => includedUsers[i].living

\* One player is dead, another was revived from the dead, and a third is
\* bleeding.
C39_Witness ==
  /\ \E i \in 1..Len(includedUsers) : includedUsers[i].state = "dead"
  /\ \E i \in 1..Len(includedUsers) : includedUsers[i].state = "zombie"
  /\ \E i \in 1..Len(includedUsers) : includedUsers[i].bleeding

-----------------------------------------------------------------------------
(* The options of a game in progress. *)

StoredSetups == {Setup(2, Options(0, TRUE, TRUE, FALSE, FALSE), MassacreFile)}

NextStored ==
  \/ readFile
  \/ ToggleOpt
  \/ resetOptions
  \/ startGame
  \/ endGame

\* The games of the server are read from the store, and the host sets and
\* resets options around a game.
SpecStored == InitLoad(StoredSetups) /\ [][NextStored]_vars

\* C40: while a game is in progress no command changes its options: toggleOpt
\* and the reset of the options are refused and leave them as they are.
C40_OptionsKeptInProgress ==
  [][(hasCurrentGame /\ inProgress) =>
       options' = options]_vars

====
